---- MODULE Spec2Model ----
(***************************************************************************)
(* Habitat estimation and overlap analysis of Sarahdeep/diploma:           *)
(*   src/app/spatial_analysis.py   calculate_mcp, calculate_kde,           *)
(*                                 calculate_overlap                       *)
(*   src/app/endpoints/analysis.py get_overlap_trend, get_habitat_evolution*)
(*                                                                         *)
(* Five specifications share the module:                                   *)
(*   Spec             the two trend endpoints, one action per loop turn    *)
(*   OverlapSpec      calculate_overlap applied to inputs drawn in Init    *)
(*   KdeSpec          calculate_kde applied to inputs drawn in Init        *)
(*   McpSpec          calculate_mcp applied to inputs drawn in Init        *)
(*   EstimatorSpec    either of calculate_mcp and calculate_kde            *)
(*                                                                         *)
(* Geometry is planar and discrete: a region is a set of unit cells        *)
(* <<x, y>> (the cell [x, x+1] x [y, y+1]), its area is the number of      *)
(* cells, intersection and union are those of the cell sets.  Times are    *)
(* whole days counted from 2024-01-01 (day 0).  Quotients of floats are    *)
(* kept as reduced fractions <<numerator, denominator>>.                   *)
(***************************************************************************)
EXTENDS Integers, Sequences, FiniteSets

VARIABLES
  request,        \* schemas.AnalysisRequest of the running trend call
  observations,   \* rows of the observations table
  kdeLib,         \* which outcome family the numerical libraries follow
  pc,             \* position of the trend handler
  current_time,   \* analysis.py:73 / :129
  overlap_data,   \* analysis.py:72
  habitat_data,   \* analysis.py:128
  steps,          \* per loop turn: what was queried, computed and called
  ovArgs,         \* arguments of the calculate_overlap call under check
  ovPc,           \* "call" | "returned" | "raised" | "idle"
  ovResult,       \* what calculate_overlap returned
  kdeArgs,        \* arguments of the calculate_kde call under check
  kdePc,          \* "call" | "returned" | "raised" | "idle"
  kdeResult,      \* what calculate_kde returned
  kdeStages,      \* the stages of the computation the call went through
  kdeThreshold,   \* the density the contour of the call was traced at
  mcpArgs,        \* arguments of the calculate_mcp call under check
  mcpPc,          \* "call" | "hull" | "returned" | "idle"
  mcpPoints,      \* the local points, spatial_analysis.py:18 and :61
  mcpLog,         \* warnings issued and hulls computed, in order
  mcpResult,      \* what calculate_mcp returned
  habReq,         \* the request to a habitat endpoint, with its oracles
  habObservations,\* rows of the observations table the endpoint reads
  habitat_areas,  \* rows of the habitat_areas table, models.HabitatArea
  habPc,          \* position of the habitat endpoint and of its task
  habResponse,    \* the response of the endpoint
  habCalls,       \* the estimator and overlap calls that were entered
  conArgs,        \* per thread: the arguments of its calculate_kde call
  conPc,          \* per thread: its position in calculate_kde
  fig,            \* per thread: the local fig, spatial_analysis.py:165
  contour_axes,   \* per thread: the figure its contour_set was drawn on
  conResult,      \* per thread: what its call returned
  Gcf             \* pyplot's registry of open figures, the current one last

vars == <<request, observations, kdeLib, pc, current_time, overlap_data,
          habitat_data, steps, ovArgs, ovPc, ovResult, kdeArgs, kdePc,
          kdeResult, kdeStages, kdeThreshold, mcpArgs, mcpPc, mcpPoints,
          mcpLog, mcpResult, habReq, habObservations, habitat_areas, habPc,
          habResponse, habCalls, conArgs, conPc, fig, contour_axes,
          conResult, Gcf>>

trendVars == <<request, observations, kdeLib, pc, current_time,
               overlap_data, habitat_data, steps>>
ovVars == <<ovArgs, ovPc, ovResult>>
kdeVars == <<kdeArgs, kdePc, kdeResult, kdeStages, kdeThreshold>>
mcpVars == <<mcpArgs, mcpPc, mcpPoints, mcpLog, mcpResult>>
habVars == <<habReq, habObservations, habitat_areas, habPc, habResponse,
             habCalls>>
conVars == <<conArgs, conPc, fig, contour_axes, conResult, Gcf>>

(***************************************************************************)
(* Arithmetic helpers.                                                     *)
(***************************************************************************)
RECURSIVE Gcd(_, _)
Gcd(a, b) == IF b = 0 THEN a ELSE Gcd(b, a % b)

\* The float quotient n / d (d > 0, n >= 0) as a reduced fraction.
Ratio(n, d) == LET g == Gcd(n, d) IN <<n \div g, d \div g>>

Zero == <<0, 1>>
One == <<1, 1>>

Min(S) == CHOOSE x \in S : \A y \in S : x <= y
Max(S) == CHOOSE x \in S : \A y \in S : x >= y

(***************************************************************************)
(* Geometries and their WKT text.                                          *)
(***************************************************************************)
Rect(x0, y0, x1, y1) == {<<x, y>> : x \in x0..(x1 - 1), y \in y0..(y1 - 1)}

Area(cells) == Cardinality(cells)

\* A shapely geometry: the region it covers and whether GEOS calls it valid
\* (a self-intersecting ring parses, but is not valid).
Geom(cells, valid) == [cells |-> cells, valid |-> valid]

\* What a caller may pass where a WKT string is expected.
NoneWkt == [tag |-> "None", cells |-> {}, valid |-> FALSE]
GarbageWkt == [tag |-> "text", cells |-> {}, valid |-> FALSE]

\* geometry.wkt
Wkt(g) == [tag |-> "POLYGON", cells |-> g.cells, valid |-> g.valid]

\* shapely.wkt.loads: raises on None and on text that is not WKT.
wkt_loads(w) ==
  IF w.tag = "POLYGON"
  THEN [exc |-> FALSE, val |-> Geom(w.cells, w.valid)]
  ELSE [exc |-> TRUE, val |-> Geom({}, FALSE)]

(***************************************************************************)
(* calculate_overlap, spatial_analysis.py:235-277.                         *)
(***************************************************************************)
ZeroMetrics ==
  [intersection_area |-> 0, union_area |-> 0, overlap_index |-> Zero]

\* poly1.intersection(poly2) / poly1.union(poly2): GEOS raises a
\* TopologyException on some invalid operands; geos_fails says whether it
\* does on the invalid operands of this call.
GeosRaises(p1, p2, geos_fails) == geos_fails /\ (~p1.valid \/ ~p2.valid)

\* poly1.intersection(poly1)
IntersectionWithSelf(p1, p2) == p1.cells \cap p1.cells

intersection(p1, p2) == p1.cells \cap p2.cells

\* The first operand alone.
UnionIsFirstOperand(p1, p2) == p1.cells

union(p1, p2) == p1.cells \cup p2.cells

\* The intersection over the sum of the two areas.
IndexOverSumOfAreas(intersection_area, union_area) ==
  IF union_area > 0
  THEN Ratio(intersection_area, union_area + intersection_area)
  ELSE Zero

\* The union over the intersection.
IndexInverted(intersection_area, union_area) ==
  IF intersection_area > 0
  THEN Ratio(union_area, intersection_area)
  ELSE Zero

\* :264
overlap_index_of(intersection_area, union_area) ==
  IF union_area > 0 THEN Ratio(intersection_area, union_area) ELSE Zero

\* The dictionary with the two directional coefficients added.
OverlapMetricsWithCoefficients(p1, p2) ==
  LET intersection_area == Area(intersection(p1, p2))
      union_area == Area(union(p1, p2))
  IN [intersection_area |-> intersection_area,
      union_area |-> union_area,
      overlap_index |-> overlap_index_of(intersection_area, union_area),
      overlap_coefficient_1 |->
        IF Area(p1.cells) > 0 THEN Ratio(intersection_area, Area(p1.cells))
        ELSE Zero,
      overlap_coefficient_2 |->
        IF Area(p2.cells) > 0 THEN Ratio(intersection_area, Area(p2.cells))
        ELSE Zero]

\* :266-270, the dictionary the try block returns.
OverlapMetrics(p1, p2) ==
  LET intersection_area == Area(intersection(p1, p2))
      union_area == Area(union(p1, p2))
  IN [intersection_area |-> intersection_area,
      union_area |-> union_area,
      overlap_index |-> overlap_index_of(intersection_area, union_area)]

\* :252-270, the body of the try block: exc says that it raised.
OverlapTry(habitat1_wkt, habitat2_wkt, geos_fails) ==
  LET l1 == wkt_loads(habitat1_wkt)
      l2 == wkt_loads(habitat2_wkt)
  IN IF l1.exc \/ l2.exc
     THEN [exc |-> TRUE, val |-> ZeroMetrics]
     ELSE IF GeosRaises(l1.val, l2.val, geos_fails)
          THEN [exc |-> TRUE, val |-> ZeroMetrics]
          ELSE [exc |-> FALSE, val |-> OverlapMetrics(l1.val, l2.val)]

\* A handler that lets the exception through.
OverlapNoExcept(habitat1_wkt, habitat2_wkt, geos_fails) ==
  OverlapTry(habitat1_wkt, habitat2_wkt, geos_fails)

\* :251-277: except Exception returns the all-zero dictionary.
calculate_overlap(habitat1_wkt, habitat2_wkt, geos_fails) ==
  LET t == OverlapTry(habitat1_wkt, habitat2_wkt, geos_fails)
  IN IF t.exc
     THEN [exc |-> FALSE, val |-> ZeroMetrics]
     ELSE [exc |-> FALSE, val |-> t.val]

(***************************************************************************)
(* calculate_kde, spatial_analysis.py:74-233.                              *)
(*                                                                         *)
(* A point is a row [id, species_id, timestamp, lon, lat]; an array of     *)
(* points is the set of its rows (two rows may share a location).  An      *)
(* optional scalar is [kind, v] with kind "none", "int" or "float".  What  *)
(* scipy, matplotlib and shapely do with the numbers is an input of the    *)
(* call, lib = [fault, segs]: fault names a library call that raises and   *)
(* segs are the contour lines matplotlib traces at the threshold.          *)
(***************************************************************************)
NoneVal == [kind |-> "none", v |-> 0]
IntVal(n) == [kind |-> "int", v |-> n]
FloatVal(n) == [kind |-> "float", v |-> n]

\* Areas of contour polygons are counted in units of 1e-9 square degrees,
\* the threshold of the tests at :182 and :189; a cell of the grid is a
\* thousand times that.
AreaEps == 1
CellArea == 1000 * AreaEps
GridPointsLimit == 200

KdeNone == [is_none |-> TRUE, polygon_wkt |-> NoneWkt, grid_points |-> FALSE]

\* Every three rows lie on one line (or coincide): the sample covariance
\* is singular and gaussian_kde raises LinAlgError.
Collinear(points) ==
  \A a \in points, b \in points, c \in points :
     (b.lon - a.lon) * (c.lat - a.lat) = (b.lat - a.lat) * (c.lon - a.lon)

\* :119-122
ValidBandwidth(h_degrees) ==
  h_degrees.kind = "none"
    \/ (h_degrees.kind \in {"int", "float"} /\ h_degrees.v > 0)

\* :129
ValidLevel(level_percent) ==
  /\ level_percent.kind \in {"int", "float"}
  /\ 0 < level_percent.v
  /\ level_percent.v <= 100

\* Any number counts as a grid size.
GridSizeAnyNumber(grid_size) == grid_size.kind \in {"int", "float"}

\* :132
ValidGridSize(grid_size) == grid_size.kind = "int" /\ grid_size.v > 1

\* One traced line of the contour set and what shapely makes of it.
Segment(nverts, raises, valid, area, cells, buf_valid, buf_area, buf_cells) ==
  [nverts |-> nverts, raises |-> raises, valid |-> valid, area |-> area,
   cells |-> cells, buf_valid |-> buf_valid, buf_area |-> buf_area,
   buf_cells |-> buf_cells]

\* The turn of the loop without the tests of validity and area.
SegmentPolygonsUnvalidated(seg) ==
  IF seg.nverts >= 3 /\ ~seg.raises
  THEN <<Geom(seg.cells, seg.valid)>>
  ELSE <<>>

\* The turn of the loop without the repair by buffer(0).
SegmentPolygonsWithoutRepair(seg) ==
  IF seg.nverts >= 3 /\ ~seg.raises /\ seg.valid /\ seg.area > AreaEps
  THEN <<Geom(seg.cells, TRUE)>>
  ELSE <<>>

\* :177-197, one turn of the loop: the polygons it appends to valid_polygons.
SegmentPolygons(seg) ==
  IF seg.nverts >= 3
  THEN IF seg.raises
       THEN <<>>                                        \* :194 except
       ELSE IF seg.valid
            THEN IF seg.area > AreaEps
                 THEN <<Geom(seg.cells, TRUE)>>
                 ELSE <<>>
            ELSE IF seg.buf_valid /\ seg.buf_area > AreaEps
                 THEN <<Geom(seg.buf_cells, TRUE)>>
                 ELSE <<>>
  ELSE <<>>

\* :176-197
RECURSIVE ValidPolygons(_)
ValidPolygons(all_segments) ==
  IF all_segments = <<>>
  THEN <<>>
  ELSE SegmentPolygons(Head(all_segments)) \o ValidPolygons(Tail(all_segments))

\* shapely.ops.unary_union: valid when its operands are.
unary_union(polys) ==
  Geom(UNION {polys[i].cells : i \in 1..Len(polys)},
       \A i \in 1..Len(polys) : polys[i].valid)

RemoveAt(s, i) ==
  [j \in 1..(Len(s) - 1) |-> IF j < i THEN s[j] ELSE s[j + 1]]

RECURSIVE SortAscending(_)
SortAscending(s) ==
  IF s = <<>>
  THEN <<>>
  ELSE LET i == CHOOSE i \in 1..Len(s) : \A j \in 1..Len(s) : s[i] <= s[j]
       IN <<s[i]>> \o SortAscending(RemoveAt(s, i))

\* The percentile that takes the next sample above the position.
PercentileHigher(a, q) ==
  LET n == Len(a)
      sorted == SortAscending(a)
      position == (n - 1) * q
      next == (position + 99) \div 100
  IN [below |-> sorted[next + 1], above |-> sorted[next + 1],
      gamma |-> Zero]

\* np.percentile(a, q), :53: linear interpolation between the samples on
\* either side of position (n - 1) * q / 100 of the sorted array; the
\* value is below + gamma * (above - below).
percentile(a, q) ==
  LET n == Len(a)
      sorted == SortAscending(a)
      position == (n - 1) * q
      previous == position \div 100
      next == IF previous + 1 < n THEN previous + 1 ELSE previous
  IN [below |-> sorted[previous + 1], above |-> sorted[next + 1],
      gamma |-> Ratio(position % 100, 100)]

\* No threshold: the call ended before :158.
NoThreshold ==
  [present |-> FALSE, value |-> [below |-> 0, above |-> 0, gamma |-> Zero]]

\* The threshold at the level_percent-th percentile.
ThresholdAtLevel(z, level_percent) ==
  [present |-> TRUE, value |-> percentile(z, level_percent.v)]

\* :158.  z lists the densities kernel(positions) of the grid.
density_threshold(z, level_percent) ==
  [present |-> TRUE, value |-> percentile(z, 100 - level_percent.v)]

\* :161-229: the contour traced at the threshold and the polygon made of
\* its segments.
KdeContour(grid_size, lib, threshold) ==
  IF lib.fault = "contour"
  THEN [exc |-> TRUE, val |-> KdeNone, stages |-> <<"grid", "density">>,
        threshold |-> threshold]                                   \* :165-167
  ELSE IF lib.segs = <<>>
  THEN [exc |-> FALSE, val |-> KdeNone,
        stages |-> <<"grid", "density", "contour">>,
        threshold |-> threshold]                                   \* :169-171
  ELSE LET valid_polygons == ValidPolygons(lib.segs)
           final_geometry == unary_union(valid_polygons)
           stages == <<"grid", "density", "contour">>
       IN IF valid_polygons = <<>>
          THEN [exc |-> FALSE, val |-> KdeNone, stages |-> stages,
                threshold |-> threshold]                           \* :199-201
          ELSE IF final_geometry.cells = {}
          THEN [exc |-> FALSE, val |-> KdeNone, stages |-> stages,
                threshold |-> threshold]                           \* :206-208
          ELSE [exc |-> FALSE,
                val |-> [is_none |-> FALSE,
                         polygon_wkt |-> Wkt(final_geometry),
                         grid_points |-> grid_size.v <= GridPointsLimit],
                stages |-> stages, threshold |-> threshold]

\* :139-229, the body of the try block: exc says that it raised, stages
\* which of the evaluation grid (:140-152), the density (:155-156) and
\* the contour (:158-167) it went through.
KdeTry(points, level_percent, grid_size, lib) ==
  IF Collinear(points) \/ lib.fault = "gaussian_kde"
  THEN [exc |-> TRUE, val |-> KdeNone, stages |-> <<"grid">>,
        threshold |-> NoThreshold]                                 \* :155
  ELSE KdeContour(grid_size, lib,
                  density_threshold(lib.z, level_percent))         \* :158

\* The computation without the handler of :231.
KdeNoExcept(points, level_percent, grid_size, lib) ==
  KdeTry(points, level_percent, grid_size, lib)

\* :139-233: except Exception returns None.
KdeGuarded(points, level_percent, grid_size, lib) ==
  LET t == KdeTry(points, level_percent, grid_size, lib)
  IN IF t.exc
     THEN [exc |-> FALSE, val |-> KdeNone, stages |-> t.stages,
           threshold |-> t.threshold]
     ELSE t

\* A return of None before the try block.
KdeEarlyNone ==
  [exc |-> FALSE, val |-> KdeNone, stages |-> <<>>,
   threshold |-> NoThreshold]

\* :103-233.  points = [rows, is_ndarray, convertible].
calculate_kde(points, h_degrees, level_percent, grid_size, lib) ==
  IF ~points.is_ndarray /\ ~points.convertible
  THEN KdeEarlyNone                                     \* :109-111
  ELSE IF Cardinality(points.rows) < 3
  THEN KdeEarlyNone                                     \* :113-115
  ELSE IF ~ValidBandwidth(h_degrees)
  THEN KdeEarlyNone                                     \* :120-122
  ELSE IF ~ValidLevel(level_percent)
  THEN KdeEarlyNone                                     \* :129-131
  ELSE IF ~ValidGridSize(grid_size)
  THEN KdeEarlyNone                                     \* :132-134
  ELSE KdeGuarded(points.rows, level_percent, grid_size, lib)

(***************************************************************************)
(* calculate_mcp, spatial_analysis.py:18-72.  points is a list of          *)
(* <<longitude, latitude>> pairs with whole coordinates; a polygon is the  *)
(* ring of its vertices, counter-clockwise from the lowest of the leftmost *)
(* ones.  Distances are compared exactly, without float rounding.          *)
(***************************************************************************)
\* Values of parameters['percentage'] that float() refuses: a string that
\* is no number (ValueError) and a list (TypeError).
TextVal == [kind |-> "text", v |-> 0]
ListVal == [kind |-> "list", v |-> 0]

\* What calculate_mcp returns: None, or the WKT text of a polygon.
McpNone == [tag |-> "None", ring |-> <<>>]

RECURSIVE SumAxis(_, _)
SumAxis(points, axis) ==
  IF points = <<>>
  THEN 0
  ELSE Head(points)[axis] + SumAxis(Tail(points), axis)

\* :49-50.  The centroid is (sx / n, sy / n); each entry is n * n times
\* the square of the distance, which orders as the distance does.
distances(points) ==
  LET n == Len(points)
      sx == SumAxis(points, 1)
      sy == SumAxis(points, 2)
  IN [i \in 1..n |->
        (n * points[i][1] - sx) * (n * points[i][1] - sx)
          + (n * points[i][2] - sy) * (n * points[i][2] - sy)]

\* distance < threshold
StrictlyWithin(distance, threshold) == distance < threshold.below

\* distance <= threshold, :56, for a distance of the array: gamma < 1, so
\* the threshold is under the sample above unless the two are equal, and
\* no sample lies between them.
WithinThreshold(distance, threshold) == distance <= threshold.below

\* points_array[mask], :57
RECURSIVE Compress(_, _)
Compress(points, mask) ==
  IF points = <<>>
  THEN <<>>
  ELSE (IF Head(mask) THEN <<Head(points)>> ELSE <<>>)
         \o Compress(Tail(points), Tail(mask))

\* :43-45: float(percentage) raises, or the range test does.
PercentageRaises(percentage) ==
  \/ percentage.kind \in {"text", "list"}
  \/ ~(0 < percentage.v /\ percentage.v <= 100)

\* The point count test at 2 points.
McpFilterFromTwo(points, parameters) ==
  IF Len(points) < 2
  THEN [returned |-> TRUE, points |-> points, warned |-> FALSE]
  ELSE [returned |-> FALSE, points |-> points, warned |-> FALSE]

\* :33-64: returned says that the call ended with None, points is the
\* list the hull is taken of, warned that warnings.warn was called (:63).
McpFilter(points, parameters) ==
  IF Len(points) < 3
  THEN [returned |-> TRUE, points |-> points, warned |-> FALSE]     \* :34
  ELSE IF parameters.percentage.kind = "none"
  THEN [returned |-> FALSE, points |-> points, warned |-> FALSE]    \* :41
  ELSE IF PercentageRaises(parameters.percentage)
  THEN [returned |-> FALSE, points |-> points, warned |-> TRUE]     \* :62-64
  ELSE LET d == distances(points)
           threshold == percentile(d, parameters.percentage.v)
           mask == [i \in 1..Len(points) |->
                      WithinThreshold(d[i], threshold)]
           filtered_points == Compress(points, mask)
       IN IF Len(filtered_points) < 3
          THEN [returned |-> TRUE, points |-> points,
                warned |-> FALSE]                                   \* :59
          ELSE [returned |-> FALSE, points |-> filtered_points,
                warned |-> FALSE]                                   \* :61

\* Twice the signed area of the triangle o, a, b: positive when b is to
\* the left of the ray from o through a.
Cross(o, a, b) ==
  (a[1] - o[1]) * (b[2] - o[2]) - (a[2] - o[2]) * (b[1] - o[1])

Locations(points) == {points[i] : i \in 1..Len(points)}

AllCollinear(S) == \A a \in S, b \in S, c \in S : Cross(a, b, c) = 0

\* p lies on the segment from a to b.
Between(p, a, b) ==
  /\ Cross(a, b, p) = 0
  /\ (a[1] - p[1]) * (b[1] - p[1]) + (a[2] - p[2]) * (b[2] - p[2]) <= 0

\* p lies in the closed triangle a, b, c, which is not flat.
InTriangle(p, a, b, c) ==
  /\ Cross(a, b, c) # 0
  /\ LET d1 == Cross(a, b, p)
         d2 == Cross(b, c, p)
         d3 == Cross(c, a, p)
     IN ~((d1 < 0 \/ d2 < 0 \/ d3 < 0) /\ (d1 > 0 \/ d2 > 0 \/ d3 > 0))

\* p is a corner of the hull of S: it is not in the hull of the others.
Extreme(p, S) ==
  LET R == S \ {p}
  IN /\ ~(\E a \in R, b \in R : Between(p, a, b))
     /\ ~(\E a \in R, b \in R, c \in R : InTriangle(p, a, b, c))

\* The corners counter-clockwise as seen from the corner v0.
RECURSIVE CcwFrom(_, _)
CcwFrom(v0, rest) ==
  IF rest = {}
  THEN <<>>
  ELSE LET a == CHOOSE a \in rest :
                  \A b \in rest \ {a} : Cross(v0, a, b) > 0
       IN <<a>> \o CcwFrom(v0, rest \ {a})

\* The corners of the bounding box.
BoundingBoxRing(points) ==
  LET S == Locations(points)
      x0 == Min({p[1] : p \in S})
      x1 == Max({p[1] : p \in S})
      y0 == Min({p[2] : p \in S})
      y1 == Max({p[2] : p \in S})
  IN [type |-> "Polygon",
      ring |-> <<<<x0, y0>>, <<x1, y0>>, <<x1, y1>>, <<x0, y1>>>>]

\* MultiPoint(points).convex_hull, :66-67: a Polygon, or a LineString or
\* a Point when the locations do not span the plane.
convex_hull(points) ==
  LET S == Locations(points)
  IN IF S = {}
     THEN [type |-> "GeometryCollection", ring |-> <<>>]
     ELSE IF Cardinality(S) = 1
     THEN [type |-> "Point", ring |-> <<CHOOSE p \in S : TRUE>>]
     ELSE IF AllCollinear(S)
     THEN LET a == CHOOSE a \in S : \A p \in S :
                      a[1] < p[1] \/ (a[1] = p[1] /\ a[2] <= p[2])
              b == CHOOSE b \in S : \A p \in S :
                      b[1] > p[1] \/ (b[1] = p[1] /\ b[2] >= p[2])
          IN [type |-> "LineString", ring |-> <<a, b>>]
     ELSE LET corners == {p \in S : Extreme(p, S)}
              v0 == CHOOSE v \in corners : \A p \in corners :
                       v[1] < p[1] \/ (v[1] = p[1] /\ v[2] <= p[2])
          IN [type |-> "Polygon",
              ring |-> <<v0>> \o CcwFrom(v0, corners \ {v0})]

\* mcp_polygon.wkt
PolygonWkt(geometry) == [tag |-> "POLYGON", ring |-> geometry.ring]

\* The text of the hull whatever its type.
McpHullAnyGeometry(points) == PolygonWkt(convex_hull(points))

\* :66-72
McpHull(points) ==
  LET mcp_polygon == convex_hull(points)
  IN IF mcp_polygon.type = "Polygon"
     THEN PolygonWkt(mcp_polygon)
     ELSE McpNone

\* :33-72: the call never raises; log lists the warning and the hull.
calculate_mcp(points, parameters) ==
  LET f == McpFilter(points, parameters)
      warning == IF f.warned THEN <<"warn">> ELSE <<>>
  IN IF f.returned
     THEN [exc |-> FALSE, val |-> McpNone, log |-> warning]
     ELSE [exc |-> FALSE, val |-> McpHull(f.points),
           log |-> Append(warning, "convex_hull")]

(***************************************************************************)
(* The observations table and the numerical libraries, as the trend        *)
(* endpoints see them.                                                     *)
(***************************************************************************)
MaxDay == 2        \* request dates are days 0..MaxDay
MaxStep == 2       \* time_step_days is -1..MaxStep
MaxWindow == 1     \* observation_window_days is 0..MaxWindow

\* models.Species rows: ids 1 and 2 exist, 3 does not.
SpeciesTable == {1, 2}

Row(id, species_id, timestamp, lon, lat) ==
  [id |-> id, species_id |-> species_id, timestamp |-> timestamp,
   lon |-> lon, lat |-> lat, located |-> TRUE]

\* models.Observation rows the table is filled from.  Species 1: rows 1, 2
\* and 4 lie on one line, rows 1, 2 and 3 do not.
Rows1 == {Row(1, 1, 0, 0, 0), Row(2, 1, 0, 2, 0), Row(3, 1, 1, 0, 2),
          Row(4, 1, 0, 4, 0), Row(10, 1, 2, 2, 2)}
Rows2 == {Row(5, 2, 1, 1, 1), Row(6, 2, 1, 3, 1), Row(7, 2, 1, 1, 3)}

Tables1 == {{}, {r \in Rows1 : r.id \in {1, 2}},
            {r \in Rows1 : r.id \in {1, 2, 3}},
            {r \in Rows1 : r.id \in {1, 2, 4}}, Rows1}
Tables2 == {{r \in Rows2 : r.id \in {5}}, {r \in Rows2 : r.id \in {5, 6}},
            Rows2}
Tables == {t1 \cup t2 : t1 \in Tables1, t2 \in Tables2}

\* The bounding box of a set of rows, as a region.
BBox(points) ==
  Rect(Min({r.lon : r \in points}), Min({r.lat : r \in points}),
       Max({r.lon : r \in points}), Max({r.lat : r \in points}))

ValidSegment(cells) ==
  Segment(5, FALSE, TRUE, Area(cells) * CellArea, cells, TRUE,
          Area(cells) * CellArea, cells)
ShortSegment == Segment(2, FALSE, FALSE, 0, {}, FALSE, 0, {})
RaisingSegment == Segment(4, TRUE, FALSE, 0, {}, FALSE, 0, {})
SliverSegment == Segment(4, FALSE, TRUE, AreaEps, {}, TRUE, AreaEps, {})
FixableSegment(cells) ==
  Segment(6, FALSE, FALSE, 0, {}, TRUE, Area(cells) * CellArea, cells)
UnfixableSegment == Segment(6, FALSE, FALSE, 0, {}, FALSE, 0, {})

\* The densities of a grid over the points: none off the points, more
\* where more of them fall.
GridDensity(points) == <<0, 1, Cardinality(points)>>

\* The families of library behaviour a trend run is checked under; each is
\* a function of the points, as the libraries are.
KdeLibs == {"box", "flat", "repair"}

LibFor(lib, points) ==
  CASE lib = "box" ->
         [fault |-> "none", segs |-> <<ValidSegment(BBox(points))>>,
          z |-> GridDensity(points)]
    [] lib = "flat" ->
         [fault |-> "none", segs |-> <<>>, z |-> GridDensity(points)]
    [] OTHER ->
         [fault |-> "none",
          segs |-> <<ShortSegment, RaisingSegment, SliverSegment,
                     FixableSegment(BBox(points))>>,
          z |-> GridDensity(points)]

(***************************************************************************)
(* endpoints/analysis.py                                                   *)
(***************************************************************************)
\* The query with the end of the window excluded.
QueryHalfOpenWindow(db, species_id, window_start, window_end) ==
  {row \in db : /\ row.species_id = species_id
                /\ row.timestamp >= window_start
                /\ row.timestamp < window_end}

\* The query without the start of the window.
QueryUpToWindowEnd(db, species_id, window_start, window_end) ==
  {row \in db : /\ row.species_id = species_id
                /\ row.timestamp <= window_end}

\* :22-37
get_observations_for_species_in_window(db, species_id, window_start, window_end) ==
  {row \in db : /\ row.species_id = species_id
                /\ row.timestamp >= window_start
                /\ row.timestamp <= window_end}

\* :81, :85, :140: the rows that carry both coordinates, as an ndarray.
PointsArray(raw_obs_list) ==
  [rows |-> {row \in raw_obs_list : row.located},
   is_ndarray |-> TRUE, convertible |-> TRUE]

\* :77, :135
WindowStart(t, observation_window_days) == t - observation_window_days

\* The loop advancing by one day whatever the step.
AdvanceOneDay(t, time_step_days) == t + 1

\* :114, :172
AdvanceTime(t, time_step_days) == t + time_step_days

\* :69, :125
SpeciesFound(req) ==
  req.species1_id \in SpeciesTable /\ req.species2_id \in SpeciesTable

\* :88-100, :154-159: calculate_kde is called only with 3 points or more;
\* called says whether it was.
KdeIfEnough(points, req, lib) ==
  IF Cardinality(points.rows) >= 3
  THEN [called |-> TRUE,
        out |-> calculate_kde(points, NoneVal, req.kde_level_percent,
                              req.kde_grid_size, LibFor(lib, points.rows))]
  ELSE [called |-> FALSE, out |-> KdeEarlyNone]

\* :103: kde_result and kde_result.get('polygon_wkt')
HasPolygon(kde_result) ==
  ~kde_result.is_none /\ kde_result.polygon_wkt.tag # "None"

\* The call of :106 without the test of :103.
OverlapStatsUnguarded(kde1_result, kde2_result) ==
  [called |-> TRUE,
   out |-> calculate_overlap(kde1_result.polygon_wkt,
                             kde2_result.polygon_wkt, TRUE)]

\* :102-106
OverlapStats(kde1_result, kde2_result) ==
  IF HasPolygon(kde1_result) /\ HasPolygon(kde2_result)
  THEN [called |-> TRUE,
        out |-> calculate_overlap(kde1_result.polygon_wkt,
                                  kde2_result.polygon_wkt, TRUE)]
  ELSE [called |-> FALSE,
        out |-> [exc |-> FALSE,
                 val |-> [intersection_area |-> 0, union_area |-> 0,
                          overlap_index |-> Zero]]]

\* The point stamped with the start of its window (schemas.py:340 calls
\* the time "midpoint of the window, or start of the step").
PointAtWindowStart(t, overlap_stats) ==
  [time |-> WindowStart(t, request.observation_window_days),
   overlap_area |-> overlap_stats.intersection_area,
   overlap_index |-> overlap_stats.overlap_index]

\* :108-112
OverlapTrendPoint(t, overlap_stats) ==
  [time |-> t, overlap_area |-> overlap_stats.intersection_area,
   overlap_index |-> overlap_stats.overlap_index]

\* :75-112, one turn of the while loop of get_overlap_trend up to the append.
OverlapTurn(db, req, lib, t) ==
  LET window_end == t
      window_start == WindowStart(t, req.observation_window_days)
      points1 == PointsArray(get_observations_for_species_in_window(
                   db, req.species1_id, window_start, window_end))
      points2 == PointsArray(get_observations_for_species_in_window(
                   db, req.species2_id, window_start, window_end))
      kde1 == KdeIfEnough(points1, req, lib)
      kde2 == KdeIfEnough(points2, req, lib)
      stats == OverlapStats(kde1.out.val, kde2.out.val)
  IN [time |-> t, window_start |-> window_start, window_end |-> window_end,
      points1 |-> points1.rows, points2 |-> points2.rows,
      kde_called1 |-> kde1.called, kde_called2 |-> kde2.called,
      kde1 |-> kde1.out.val, kde2 |-> kde2.out.val,
      overlap_called |-> stats.called,
      raised |-> kde1.out.exc \/ kde2.out.exc \/ stats.out.exc,
      point |-> OverlapTrendPoint(t, stats.out.val)]

RECURSIVE SumOf(_, _)
SumOf(rows, axis) ==
  IF rows = {}
  THEN 0
  ELSE LET r == CHOOSE x \in rows : TRUE
       IN (IF axis = "lon" THEN r.lon ELSE r.lat) + SumOf(rows \ {r}, axis)

NoCentroid == [present |-> FALSE, lon |-> Zero, lat |-> Zero]

\* The centroid computed only when the KDE is.
CentroidWhenEnoughForKde(points) ==
  IF Cardinality(points) >= 3
  THEN [present |-> TRUE,
        lon |-> Ratio(SumOf(points, "lon"), Cardinality(points)),
        lat |-> Ratio(SumOf(points, "lat"), Cardinality(points))]
  ELSE NoCentroid

\* :145-152: np.mean(points, axis=0) when there is a point.
Centroid(points) ==
  IF Cardinality(points) > 0
  THEN [present |-> TRUE,
        lon |-> Ratio(SumOf(points, "lon"), Cardinality(points)),
        lat |-> Ratio(SumOf(points, "lat"), Cardinality(points))]
  ELSE NoCentroid

NoGeoJson == [present |-> FALSE, cells |-> {}]

\* :39-60: None for an empty geometry, else the GeoJSON of its rings.
convert_shapely_to_geojson_pydantic(geometry) ==
  IF geometry.cells = {}
  THEN NoGeoJson
  ELSE [present |-> TRUE, cells |-> geometry.cells]

\* :160-162.  exc: wkt_loads raised outside any handler.
KdeGeoJson(kde_result) ==
  IF HasPolygon(kde_result)
  THEN LET g == wkt_loads(kde_result.polygon_wkt)
       IN [exc |-> g.exc,
           val |-> IF g.exc THEN NoGeoJson
                   ELSE convert_shapely_to_geojson_pydantic(g.val)]
  ELSE [exc |-> FALSE, val |-> NoGeoJson]

\* The body of the loop counting every row of the species in the table.
SpeciesTurnCountsAllRows(db, req, lib, t, species_id) ==
  LET window_end == t
      window_start == WindowStart(t, req.observation_window_days)
      raw_obs_list == get_observations_for_species_in_window(
                        db, species_id, window_start, window_end)
      points == PointsArray(raw_obs_list)
      kde == KdeIfEnough(points, req, lib)
      geo == KdeGeoJson(kde.out.val)
  IN [points |-> points.rows, kde_called |-> kde.called,
      kde |-> kde.out.val, raised |-> kde.out.exc \/ geo.exc,
      point |-> [time |-> t, species_id |-> species_id,
                 centroid |-> Centroid(points.rows),
                 kde_polygon |-> geo.val,
                 observation_count |->
                   Cardinality({row \in db : row.species_id = species_id})]]

\* :138-170, the body of the for loop of get_habitat_evolution.
SpeciesTurn(db, req, lib, t, species_id) ==
  LET window_end == t
      window_start == WindowStart(t, req.observation_window_days)
      raw_obs_list == get_observations_for_species_in_window(
                        db, species_id, window_start, window_end)
      points == PointsArray(raw_obs_list)
      kde == KdeIfEnough(points, req, lib)
      geo == KdeGeoJson(kde.out.val)
  IN [points |-> points.rows, kde_called |-> kde.called,
      kde |-> kde.out.val, raised |-> kde.out.exc \/ geo.exc,
      point |-> [time |-> t, species_id |-> species_id,
                 centroid |-> Centroid(points.rows),
                 kde_polygon |-> geo.val,
                 observation_count |-> Cardinality(raw_obs_list)]]

\* :133-170, one turn of the while loop of get_habitat_evolution.
HabitatTurn(db, req, lib, t) ==
  LET s1 == SpeciesTurn(db, req, lib, t, req.species1_id)
      s2 == SpeciesTurn(db, req, lib, t, req.species2_id)
  IN [time |-> t,
      window_start |-> WindowStart(t, req.observation_window_days),
      window_end |-> t,
      points1 |-> s1.points, points2 |-> s2.points,
      kde_called1 |-> s1.kde_called, kde_called2 |-> s2.kde_called,
      kde1 |-> s1.kde, kde2 |-> s2.kde,
      overlap_called |-> FALSE,
      raised |-> s1.raised \/ s2.raised,
      emitted |-> <<s1.point, s2.point>>]

\* The loops of :75 and :133 have no bound of their own when
\* time_step_days <= 0.  The model stops such a run once it has made more
\* turns than any run with time_step_days >= 1 over the same dates makes.
IterCap(req) == (req.end_date - req.start_date) + 2

(***************************************************************************)
(* Requests.                                                               *)
(***************************************************************************)
AnalysisRequest(s1, s2, start, end, step, window) ==
  [species1_id |-> s1, species2_id |-> s2, start_date |-> start,
   end_date |-> end, time_step_days |-> step,
   observation_window_days |-> window,
   kde_level_percent |-> FloatVal(95), kde_grid_size |-> IntVal(100)]

SpeciesPairs == {<<1, 2>>, <<2, 1>>, <<1, 1>>, <<1, 3>>, <<3, 2>>}

\* 2024-01-01 .. 2024-01-31 in weekly steps, a 30 day window.
ExampleRequest == AnalysisRequest(1, 2, 0, 30, 7, 30)

Requests ==
  {AnalysisRequest(p[1], p[2], start, end, step, window) :
     p \in SpeciesPairs, start \in 0..MaxDay, end \in 0..MaxDay,
     step \in (-1)..MaxStep, window \in 0..MaxWindow}
  \cup {ExampleRequest}

NoRequest == AnalysisRequest(0, 0, 0, 0, 0, 0)
NoOverlapArgs == [h1 |-> NoneWkt, h2 |-> NoneWkt, geos_fails |-> FALSE]
NoKdeArgs ==
  [points |-> PointsArray({}), h_degrees |-> NoneVal,
   level_percent |-> NoneVal, grid_size |-> NoneVal,
   lib |-> [fault |-> "none", segs |-> <<>>, z |-> <<>>]]

TrendIdle ==
  /\ request = NoRequest /\ observations = {} /\ kdeLib = "flat"
  /\ pc = "idle" /\ current_time = 0 /\ overlap_data = <<>>
  /\ habitat_data = <<>> /\ steps = <<>>
OverlapIdle ==
  ovArgs = NoOverlapArgs /\ ovPc = "idle" /\ ovResult = ZeroMetrics
KdeIdle ==
  /\ kdeArgs = NoKdeArgs /\ kdePc = "idle" /\ kdeResult = KdeNone
  /\ kdeStages = <<>> /\ kdeThreshold = NoThreshold

(***************************************************************************)
(* endpoints/habitats.py.  A parameters dictionary is a function from its  *)
(* keys; a saved polygon is the pair of its SRID and its WKT text.         *)
(***************************************************************************)
\* method.lower(), method.upper()
Lower(method) ==
  CASE method = "KDE" -> "kde" [] method = "MCP" -> "mcp" [] OTHER -> method
Upper(method) ==
  CASE method = "kde" -> "KDE" [] method = "mcp" -> "MCP"
    [] method = "xyz" -> "XYZ" [] OTHER -> method

EmptyDict == [k \in {} |-> NoneVal]

\* parameters.get(key, default)
Get(parameters, key, default) ==
  IF key \in DOMAIN parameters THEN parameters[key] ELSE default

NoFilters == [present |-> FALSE, start_date |-> NoneVal, end_date |-> NoneVal]

\* habitats.py:21-34
get_filtered_observations(db, species_id, filters) ==
  {row \in db :
     /\ row.species_id = species_id
     /\ (filters.present /\ filters.start_date.kind # "none") =>
          row.timestamp >= filters.start_date.v
     /\ (filters.present /\ filters.end_date.kind # "none") =>
          row.timestamp <= filters.end_date.v}

\* :49-61, :157-169: the rows whose location is read.
ValidObservations(rows) == {row \in rows : row.located}

\* The list of (x, y) tuples of :56, in the order of the row ids.
RECURSIVE PointList(_)
PointList(rows) ==
  IF rows = {}
  THEN <<>>
  ELSE LET first == CHOOSE r \in rows : \A q \in rows : r.id <= q.id
       IN <<<<first.lon, first.lat>>>> \o PointList(rows \ {first})

\* The parameters of calculate_kde, spatial_analysis.py:74-79.
KdeParameterNames == {"points", "h_degrees", "level_percent", "grid_size"}

\* The keywords of the calls at habitats.py:74-79 and :182-187.
HabitatKdeKeywords == {"h_meters", "level_percent", "grid_size"}

\* A call with a keyword that names no parameter raises TypeError before
\* the function is entered.
Binds(keywords, names) == keywords \subseteq names

\* habitats.py:74-79, :182-187.  entered: calculate_kde began to run.
HabitatKde(rows, parameters, lib) ==
  IF ~Binds(HabitatKdeKeywords, KdeParameterNames)
  THEN [exc |-> TRUE, val |-> KdeNone, entered |-> FALSE]
  ELSE LET out == calculate_kde(
                    [rows |-> rows, is_ndarray |-> FALSE,
                     convertible |-> TRUE],
                    Get(parameters, "h_meters", NoneVal),
                    Get(parameters, "level_percent", FloatVal(90)),
                    Get(parameters, "grid_size", IntVal(100)),
                    LibFor(lib, rows))
       IN [exc |-> out.exc, val |-> out.val, entered |-> TRUE]

\* habitats.py:72, :178
HabitatMcp(rows, parameters) ==
  calculate_mcp(PointList(rows),
                [percentage |-> Get(parameters, "percentage", NoneVal)])

NoPolygon == [present |-> FALSE, coordinates |-> <<>>, cells |-> {}]

\* :193-194: shapely_wkt.loads, then the geometry of a GeoJSON Feature: a
\* ring is closed by repeating its first vertex.
GeoJsonOfWkt(w) ==
  IF "ring" \in DOMAIN w
  THEN [present |-> TRUE, coordinates |-> Append(w.ring, w.ring[1]),
        cells |-> {}]
  ELSE [present |-> TRUE, coordinates |-> <<>>, cells |-> w.cells]

NoResponse ==
  [status |-> 0, method |-> "", polygon |-> NoPolygon,
   source_observation_count |-> 0]

HttpException(status) ==
  [pc |-> "http_error", response |-> [NoResponse EXCEPT !.status = status],
   calls |-> <<>>]

\* :202-218
PreviewResponse(method, polygon, valid_obs_count) ==
  [status |-> 200, method |-> Upper(method), polygon |-> polygon,
   source_observation_count |-> valid_obs_count]

\* preview_habitat_calculation, habitats.py:139-218.
preview_habitat_calculation(species_id, method, request_params, db, lib) ==
  IF Lower(method) \notin {"mcp", "kde"}
  THEN HttpException(400)                                         \* :147-148
  ELSE IF species_id \notin SpeciesTable
  THEN HttpException(404)                                         \* :150-152
  ELSE LET filtered == get_filtered_observations(
                             db, species_id, request_params.filters)
           points == ValidObservations(filtered)
           valid_obs_count == Cardinality(points)
       IN IF Cardinality(points) < 3
          THEN HttpException(400)                                 \* :173-174
          ELSE IF Lower(method) = "mcp"
          THEN LET polygon_wkt_string ==
                     HabitatMcp(points, request_params.parameters).val
               IN [pc |-> "returned",
                   response |->
                     PreviewResponse(
                       method,
                       IF polygon_wkt_string.tag = "POLYGON"
                       THEN GeoJsonOfWkt(polygon_wkt_string)
                       ELSE NoPolygon,
                       valid_obs_count),
                   calls |-> <<"calculate_mcp">>]
          ELSE LET k == HabitatKde(points, request_params.parameters, lib)
                   calls == IF k.entered THEN <<"calculate_kde">> ELSE <<>>
               IN IF k.exc
                  THEN [pc |-> "raised", response |-> NoResponse,
                        calls |-> calls]                          \* :182
                  ELSE [pc |-> "returned",
                        response |->
                          PreviewResponse(
                            method,
                            IF HasPolygon(k.val)
                            THEN GeoJsonOfWkt(k.val.polygon_wkt)
                            ELSE NoPolygon,
                            valid_obs_count),
                        calls |-> calls]

\* trigger_habitat_calculation_and_save, habitats.py:114-136.
trigger_habitat_calculation_and_save(species_id, method) ==
  IF Lower(method) \notin {"mcp", "kde"}
  THEN HttpException(400)
  ELSE IF species_id \notin SpeciesTable
  THEN HttpException(404)
  ELSE [pc |-> "accepted",
        response |-> [NoResponse EXCEPT !.status = 202],
        calls |-> <<>>]

\* f'SRID=4326;{polygon_wkt_string}', :89
SridWkt(polygon_wkt_string) == [srid |-> 4326, wkt |-> polygon_wkt_string]

\* models.HabitatArea(...), :94-101
HabitatArea(species_id, method, polygon, source_observation_count, at) ==
  [species_id |-> species_id, method |-> method, polygon |-> polygon,
   source_observation_count |-> source_observation_count,
   calculated_at |-> at]

\* :102-108: db.add and db.commit, rolled back when the commit raises.
SaveArea(areas, row, db_fails) == IF db_fails THEN areas ELSE areas \cup {row}

\* models.py:120: the default of calculated_at is evaluated once, when the
\* module is imported; every row the process adds carries that time, which
\* is no earlier than the rows already saved.
NextStamp(areas) == Max({0} \cup {a.calculated_at : a \in areas})

\* run_habitat_calculation, habitats.py:37-112, the background task.  The
\* value calculate_kde returns is a dictionary: formatted at :89 it is no
\* WKT text, and the commit of :104 refuses it.
run_habitat_calculation(species_id, method, request_params, db, areas, lib, db_fails) ==
  LET filtered == get_filtered_observations(
                        db, species_id, request_params.filters)
      points == ValidObservations(filtered)
  IN IF Cardinality(points) < 3
     THEN [pc |-> "task_done", areas |-> areas, calls |-> <<>>]      \* :65-68
     ELSE IF Lower(method) = "mcp"
     THEN LET polygon_wkt_string ==
                HabitatMcp(points, request_params.parameters).val
          IN [pc |-> "task_done",
              areas |->
                IF polygon_wkt_string.tag = "POLYGON"
                THEN SaveArea(areas,
                              HabitatArea(species_id, Upper(method),
                                          SridWkt(polygon_wkt_string),
                                          Cardinality(points),
                                          NextStamp(areas)),
                              db_fails)
                ELSE areas,                                          \* :84-86
              calls |-> <<"calculate_mcp">>]
     ELSE IF Lower(method) = "kde"
     THEN LET k == HabitatKde(points, request_params.parameters, lib)
              calls == IF k.entered THEN <<"calculate_kde">> ELSE <<>>
          IN IF k.exc
             THEN [pc |-> "task_raised", areas |-> areas,
                   calls |-> calls]                                  \* :74
             ELSE [pc |-> "task_done",
                   areas |->
                     IF k.val.is_none
                     THEN areas
                     ELSE SaveArea(areas,
                                   HabitatArea(species_id, Upper(method),
                                               SridWkt(GarbageWkt),
                                               Cardinality(points),
                                               NextStamp(areas)),
                                   TRUE),
                   calls |-> calls]
     ELSE [pc |-> "task_done", areas |-> areas, calls |-> <<>>]      \* :80-82

\* .order_by(calculated_at.desc()).first(), :261-271
LatestArea(areas, species_id, method) ==
  LET rows == {a \in areas : a.species_id = species_id /\ a.method = method}
  IN IF rows = {}
     THEN [found |-> FALSE,
           row |-> HabitatArea(0, "", SridWkt(NoneWkt), 0, 0)]
     ELSE [found |-> TRUE,
           row |-> CHOOSE a \in rows :
                     \A b \in rows : a.calculated_at >= b.calculated_at]

\* The keys of overlap_metrics read at :306-310.
OverlapMetricKeys ==
  {"intersection_area_km2", "union_area_km2", "jaccard_index",
   "overlap_coeff_species1", "overlap_coeff_species2"}

\* The fields HabitatOverlapResult requires, schemas.py:303-307, and the
\* keywords it is constructed with, habitats.py:302-312.
OverlapResultRequired == {"intersection_area", "union_area", "overlap_index"}
OverlapResultKeywords ==
  {"species1_id", "species2_id", "method", "intersection_area",
   "union_area", "jaccard_index", "overlap_coeff_species1",
   "overlap_coeff_species2", "intersection_geometry"}

NoOverlapResponse ==
  [status |-> 0, intersection_area |-> 0, union_area |-> 0,
   overlap_index |-> Zero]

\* calculate_habitat_overlap, habitats.py:240-312.  text_ok: the value of
\* the polygon column takes the string operations of :286-287.
calculate_habitat_overlap(species1_id, species2_id, method_for_areas, areas, text_ok, geos_fails) ==
  IF Lower(method_for_areas) \notin {"mcp", "kde"}
  THEN [pc |-> "http_error",
        response |-> [NoOverlapResponse EXCEPT !.status = 400],
        calls |-> <<>>]                                           \* :255-256
  ELSE LET habitat1 == LatestArea(areas, species1_id,
                                  Upper(method_for_areas))
           habitat2 == LatestArea(areas, species2_id,
                                  Upper(method_for_areas))
       IN IF ~habitat1.found \/ ~habitat2.found
          THEN [pc |-> "http_error",
                response |-> [NoOverlapResponse EXCEPT !.status = 404],
                calls |-> <<>>]                                   \* :273-280
          ELSE IF ~text_ok
          THEN [pc |-> "raised", response |-> NoOverlapResponse,
                calls |-> <<>>]                                   \* :286
          ELSE LET polygon1_wkt == habitat1.row.polygon.wkt
                   polygon2_wkt == habitat2.row.polygon.wkt
                   overlap_metrics ==
                     calculate_overlap(polygon1_wkt, polygon2_wkt,
                                       geos_fails).val
               IN IF ~(OverlapMetricKeys \subseteq DOMAIN overlap_metrics)
                  THEN [pc |-> "raised", response |-> NoOverlapResponse,
                        calls |-> <<"calculate_overlap">>]        \* :306
                  ELSE IF ~(OverlapResultRequired
                              \subseteq OverlapResultKeywords)
                  THEN [pc |-> "raised", response |-> NoOverlapResponse,
                        calls |-> <<"calculate_overlap">>]        \* :302
                  ELSE [pc |-> "returned",
                        response |->
                          [status |-> 200,
                           intersection_area |->
                             overlap_metrics["intersection_area_km2"],
                           union_area |->
                             overlap_metrics["union_area_km2"],
                           overlap_index |-> Zero],
                        calls |-> <<"calculate_overlap">>]

(***************************************************************************)
(* calculate_kde in two threads.  pyplot keeps one registry of the open    *)
(* figures for the process; its last entry is the current figure, the one  *)
(* plt.contour draws on.  A figure is named by the thread that opened it.  *)
(***************************************************************************)
Threads == {1, 2}

NoFigure == 0

ConIdle ==
  /\ conArgs = [t \in Threads |-> NoKdeArgs]
  /\ conPc = [t \in Threads |-> "idle"]
  /\ fig = [t \in Threads |-> NoFigure]
  /\ contour_axes = [t \in Threads |-> NoFigure]
  /\ conResult = [t \in Threads |-> KdeNone]
  /\ Gcf = <<>>

NoHabReq ==
  [handler |-> "none", species_id |-> 0, species2_id |-> 0, method |-> "",
   request_params |-> [parameters |-> EmptyDict, filters |-> NoFilters],
   lib |-> "flat", db_fails |-> FALSE, text_ok |-> FALSE,
   geos_fails |-> FALSE]
HabIdle ==
  /\ habReq = NoHabReq /\ habObservations = {} /\ habitat_areas = {}
  /\ habPc = "idle" /\ habResponse = NoResponse /\ habCalls = <<>>

NoMcpArgs == [points |-> <<>>, parameters |-> [percentage |-> NoneVal]]
McpIdle ==
  /\ mcpArgs = NoMcpArgs /\ mcpPc = "idle" /\ mcpPoints = <<>>
  /\ mcpLog = <<>> /\ mcpResult = McpNone

(***************************************************************************)
(* The trend endpoints as a state machine.                                 *)
(***************************************************************************)
Init ==
  /\ request \in Requests
  /\ observations \in Tables
  /\ kdeLib \in KdeLibs
  /\ pc = "start"
  /\ current_time = 0
  /\ overlap_data = <<>>
  /\ habitat_data = <<>>
  /\ steps = <<>>
  /\ OverlapIdle
  /\ KdeIdle
  /\ McpIdle
  /\ HabIdle
  /\ ConIdle

\* :67-73: POST /overlap-trend up to the loop.
OverlapTrendEnter ==
  /\ pc = "start"
  /\ IF SpeciesFound(request)
     THEN pc' = "overlap_loop" /\ current_time' = request.start_date
     ELSE pc' = "http404" /\ UNCHANGED current_time
  /\ UNCHANGED <<request, observations, kdeLib, overlap_data, habitat_data,
                 steps, ovVars, kdeVars, mcpVars, habVars, conVars>>

\* :75-114: one turn of the loop.
OverlapTrendStep ==
  /\ pc = "overlap_loop"
  /\ current_time <= request.end_date
  /\ Len(steps) < IterCap(request)
  /\ LET turn == OverlapTurn(observations, request, kdeLib, current_time)
     IN IF turn.raised
        THEN /\ pc' = "http500"
             /\ UNCHANGED <<current_time, overlap_data, steps>>
        ELSE /\ overlap_data' = Append(overlap_data, turn.point)
             /\ steps' = Append(steps, turn)
             /\ current_time' =
                  AdvanceTime(current_time, request.time_step_days)
             /\ UNCHANGED pc
  /\ UNCHANGED <<request, observations, kdeLib, habitat_data, ovVars,
                 kdeVars, mcpVars, habVars, conVars>>

\* :75, :116: the loop condition fails and the response is returned.
OverlapTrendReturn ==
  /\ pc = "overlap_loop"
  /\ ~(current_time <= request.end_date)
  /\ pc' = "overlap_returned"
  /\ UNCHANGED <<request, observations, kdeLib, current_time, overlap_data,
                 habitat_data, steps, ovVars, kdeVars, mcpVars, habVars, conVars>>

\* :123-131: POST /habitat-evolution up to the loop.
HabitatEvolutionEnter ==
  /\ pc = "start"
  /\ IF SpeciesFound(request)
     THEN pc' = "evolution_loop" /\ current_time' = request.start_date
     ELSE pc' = "http404" /\ UNCHANGED current_time
  /\ UNCHANGED <<request, observations, kdeLib, overlap_data, habitat_data,
                 steps, ovVars, kdeVars, mcpVars, habVars, conVars>>

\* :133-172: one turn of the loop.
HabitatEvolutionStep ==
  /\ pc = "evolution_loop"
  /\ current_time <= request.end_date
  /\ Len(steps) < IterCap(request)
  /\ LET turn == HabitatTurn(observations, request, kdeLib, current_time)
     IN IF turn.raised
        THEN /\ pc' = "http500"
             /\ UNCHANGED <<current_time, habitat_data, steps>>
        ELSE /\ habitat_data' = habitat_data \o turn.emitted
             /\ steps' = Append(steps, turn)
             /\ current_time' =
                  AdvanceTime(current_time, request.time_step_days)
             /\ UNCHANGED pc
  /\ UNCHANGED <<request, observations, kdeLib, overlap_data, ovVars,
                 kdeVars, mcpVars, habVars, conVars>>

\* :133, :174
HabitatEvolutionReturn ==
  /\ pc = "evolution_loop"
  /\ ~(current_time <= request.end_date)
  /\ pc' = "evolution_returned"
  /\ UNCHANGED <<request, observations, kdeLib, current_time, overlap_data,
                 habitat_data, steps, ovVars, kdeVars, mcpVars, habVars, conVars>>

Next ==
  \/ OverlapTrendEnter
  \/ OverlapTrendStep
  \/ OverlapTrendReturn
  \/ HabitatEvolutionEnter
  \/ HabitatEvolutionStep
  \/ HabitatEvolutionReturn

Spec == Init /\ [][Next]_vars

(***************************************************************************)
(* calculate_overlap on its own: the arguments are drawn in OverlapInit    *)
(* and OverlapCall applies the function.                                   *)
(***************************************************************************)
Square0 == Rect(0, 0, 4, 4)        \* the 4x4 square at x in [0, 4]
Square10 == Rect(10, 0, 14, 4)     \* the 4x4 square at x in [10, 14]

ValidRegions == {Rect(x, 0, x + w, 4) : x \in {0, 2, 10}, w \in {2, 4}}

WktInputs ==
  {Wkt(Geom(c, TRUE)) : c \in ValidRegions}
    \cup {Wkt(Geom({}, TRUE)),                \* POLYGON EMPTY
          Wkt(Geom(Rect(0, 0, 2, 2), FALSE)), \* a self-intersecting ring
          NoneWkt, GarbageWkt}

OverlapInit ==
  /\ ovArgs \in [h1 : WktInputs, h2 : WktInputs, geos_fails : BOOLEAN]
  /\ ovPc = "call"
  /\ ovResult = ZeroMetrics
  /\ TrendIdle
  /\ KdeIdle
  /\ McpIdle
  /\ HabIdle
  /\ ConIdle

OverlapCall ==
  /\ ovPc = "call"
  /\ LET r == calculate_overlap(ovArgs.h1, ovArgs.h2, ovArgs.geos_fails)
     IN /\ ovPc' = IF r.exc THEN "raised" ELSE "returned"
        /\ ovResult' = r.val
  /\ UNCHANGED <<ovArgs, trendVars, kdeVars, mcpVars, habVars, conVars>>

OverlapNext == OverlapCall

OverlapSpec == OverlapInit /\ [][OverlapNext]_vars

(***************************************************************************)
(* calculate_kde on its own.                                               *)
(***************************************************************************)
MaxSegs == 2       \* contour lines per call

SeqsUpTo(S, n) == UNION {[1..k -> S] : k \in 0..n}

SegmentKinds ==
  {ValidSegment(Rect(0, 0, 2, 2)), ValidSegment(Rect(1, 0, 3, 2)),
   ShortSegment, RaisingSegment, SliverSegment,
   FixableSegment(Rect(0, 0, 1, 1)), UnfixableSegment}

\* The densities kernel(positions) of a grid: distinct ones, and a flat
\* field.
DensityGrids == {<<4, 1, 3, 2, 7>>, <<2, 2, 2>>}

KdeLibChoices ==
  [fault : {"none", "gaussian_kde", "contour"},
   segs : SeqsUpTo(SegmentKinds, MaxSegs), z : DensityGrids]

\* Three rows at one location.
Coincident == {Row(1, 1, 0, 0, 0), Row(8, 1, 0, 0, 0), Row(9, 1, 0, 0, 0)}

\* Arrays, and lists np.array turns into an (n, 2) array or not: the
\* empty list gives an array of one dimension (:106-107).
KdePointChoices ==
  {PointsArray(t) : t \in Tables1 \cup {Coincident}}
    \cup {[rows |-> Rows1, is_ndarray |-> FALSE, convertible |-> c] :
            c \in BOOLEAN}
    \cup {[rows |-> {}, is_ndarray |-> FALSE, convertible |-> FALSE],
          [rows |-> {r \in Rows1 : r.id \in {1, 2}}, is_ndarray |-> FALSE,
           convertible |-> TRUE]}

Bandwidths == {NoneVal, FloatVal(1), IntVal(0)}
Levels == {FloatVal(95), NoneVal, IntVal(0), IntVal(100), IntVal(101)}
GridSizes == {IntVal(100), NoneVal, IntVal(1), IntVal(2), IntVal(201),
              FloatVal(100)}

\* The defaults of :76-78 with at most one argument changed.
KdeParamChoices ==
  {<<h, FloatVal(90), IntVal(100)>> : h \in Bandwidths}
    \cup {<<NoneVal, l, IntVal(100)>> : l \in Levels}
    \cup {<<NoneVal, FloatVal(90), g>> : g \in GridSizes}

KdeInit ==
  /\ \E pts \in KdePointChoices, par \in KdeParamChoices,
        lib \in KdeLibChoices :
       kdeArgs = [points |-> pts, h_degrees |-> par[1],
                  level_percent |-> par[2], grid_size |-> par[3],
                  lib |-> lib]
  /\ kdePc = "call"
  /\ kdeResult = KdeNone
  /\ kdeStages = <<>>
  /\ kdeThreshold = NoThreshold
  /\ TrendIdle
  /\ OverlapIdle
  /\ McpIdle
  /\ HabIdle
  /\ ConIdle

KdeCall ==
  /\ kdePc = "call"
  /\ LET r == calculate_kde(kdeArgs.points, kdeArgs.h_degrees,
                            kdeArgs.level_percent, kdeArgs.grid_size,
                            kdeArgs.lib)
     IN /\ kdePc' = IF r.exc THEN "raised" ELSE "returned"
        /\ kdeResult' = r.val
        /\ kdeStages' = r.stages
        /\ kdeThreshold' = r.threshold
  /\ UNCHANGED <<kdeArgs, trendVars, ovVars, mcpVars, habVars, conVars>>

KdeNext == KdeCall

KdeSpec == KdeInit /\ [][KdeNext]_vars

(***************************************************************************)
(* calculate_mcp applied to the arguments drawn in McpInit, in two steps:  *)
(* the percentage filter and the hull.                                     *)
(***************************************************************************)
MaxCoord == 1      \* the generated lists have coordinates 0..MaxCoord

\* The example square with its centre.
Square5 == <<<<0, 0>>, <<4, 0>>, <<4, 4>>, <<0, 4>>, <<2, 2>>>>

\* A 2x2 square and a far outlier: the 50th percentile keeps 3 points,
\* the 75th and the 95th keep the square, the 10th keeps 1 point.
Outlier5 == <<<<0, 0>>, <<2, 0>>, <<0, 2>>, <<2, 2>>, <<10, 10>>>>

\* Three points on a line and one far off it: the 70th percentile keeps
\* the three on the line.
LineAndOutlier == <<<<0, 0>>, <<2, 0>>, <<4, 0>>, <<2, 9>>>>

McpPointChoices ==
  SeqsUpTo((0..MaxCoord) \X (0..MaxCoord), 3)
    \cup {Square5, Outlier5, LineAndOutlier,
          <<<<0, 0>>, <<1, 1>>, <<2, 2>>, <<3, 3>>>>,
          <<<<0, 0>>, <<0, 0>>, <<4, 4>>>>,
          <<<<0, 0>>, <<4, 0>>, <<0, 4>>, <<1, 1>>, <<4, 0>>, <<2, 0>>>>}

Percentages ==
  {NoneVal, IntVal(100), FloatVal(100), IntVal(95), IntVal(75),
   IntVal(70), IntVal(50), IntVal(10), IntVal(0), IntVal(-5), IntVal(150),
   TextVal, ListVal}

McpInit ==
  /\ mcpArgs \in [points : McpPointChoices,
                  parameters : [percentage : Percentages]]
  /\ mcpPc = "call"
  /\ mcpPoints = mcpArgs.points
  /\ mcpLog = <<>>
  /\ mcpResult = McpNone
  /\ TrendIdle
  /\ OverlapIdle
  /\ KdeIdle
  /\ HabIdle
  /\ ConIdle

\* :33-64
McpPercentage ==
  /\ mcpPc = "call"
  /\ LET f == McpFilter(mcpArgs.points, mcpArgs.parameters)
     IN /\ mcpPc' = IF f.returned THEN "returned" ELSE "hull"
        /\ mcpPoints' = f.points
        /\ mcpLog' = IF f.warned THEN <<"warn">> ELSE <<>>
  /\ UNCHANGED <<mcpArgs, mcpResult, trendVars, ovVars, kdeVars, habVars, conVars>>

\* :66-72
McpConvexHull ==
  /\ mcpPc = "hull"
  /\ mcpResult' = McpHull(mcpPoints)
  /\ mcpLog' = Append(mcpLog, "convex_hull")
  /\ mcpPc' = "returned"
  /\ UNCHANGED <<mcpArgs, mcpPoints, trendVars, ovVars, kdeVars, habVars, conVars>>

McpNext == McpPercentage \/ McpConvexHull

McpSpec == McpInit /\ [][McpNext]_vars

(***************************************************************************)
(* Either estimator applied to its arguments.                              *)
(***************************************************************************)
EstimatorInit == McpInit \/ KdeInit

EstimatorNext == McpPercentage \/ McpConvexHull \/ KdeCall

EstimatorSpec == EstimatorInit /\ [][EstimatorNext]_vars

(***************************************************************************)
(* The habitat endpoints, each serving the request drawn in HabitatInit.   *)
(***************************************************************************)
HabitatParameters ==
  {EmptyDict, [percentage |-> IntVal(50)], [level_percent |-> IntVal(50)],
   [grid_size |-> IntVal(50)], [h_meters |-> FloatVal(1)]}

HabitatFilters ==
  {NoFilters,
   [present |-> TRUE, start_date |-> IntVal(1), end_date |-> NoneVal]}

\* Saved areas: species 1 has two KDE areas, the later one the square at
\* x in [0, 4]; species 2 has one KDE area and one MCP area.
SavedAreas ==
  {HabitatArea(1, "KDE", SridWkt(Wkt(Geom(Rect(0, 0, 2, 4), TRUE))), 5, 0),
   HabitatArea(1, "KDE", SridWkt(Wkt(Geom(Rect(0, 0, 4, 4), TRUE))), 5, 1),
   HabitatArea(2, "KDE", SridWkt(Wkt(Geom(Rect(2, 0, 6, 4), TRUE))), 3, 0),
   HabitatArea(2, "MCP", SridWkt(Wkt(Geom(Rect(2, 0, 4, 4), TRUE))), 3, 1)}

AreaTables ==
  {{}, SavedAreas, {a \in SavedAreas : a.species_id = 1},
   {a \in SavedAreas : a.method = "KDE"}}

CalculationRequests ==
  [handler : {"preview", "save"}, species_id : {1, 3}, species2_id : {0},
   method : {"mcp", "kde", "KDE", "xyz"},
   request_params : [parameters : HabitatParameters,
                     filters : HabitatFilters],
   lib : KdeLibs, db_fails : BOOLEAN, text_ok : {FALSE},
   geos_fails : {FALSE}]

OverlapRequests ==
  [handler : {"overlap"}, species_id : {1, 2}, species2_id : {1, 2, 3},
   method : {"mcp", "kde", "KDE", "xyz"},
   request_params : {[parameters |-> EmptyDict, filters |-> NoFilters]},
   lib : {"flat"}, db_fails : {FALSE}, text_ok : BOOLEAN,
   geos_fails : BOOLEAN]

HabitatInit ==
  /\ habReq \in CalculationRequests \cup OverlapRequests
  /\ habObservations \in Tables
  /\ habitat_areas \in AreaTables
  /\ habPc = "start"
  /\ habResponse = NoResponse
  /\ habCalls = <<>>
  /\ TrendIdle
  /\ OverlapIdle
  /\ KdeIdle
  /\ McpIdle
  /\ ConIdle

PreviewHabitat ==
  /\ habPc = "start"
  /\ habReq.handler = "preview"
  /\ LET r == preview_habitat_calculation(
                habReq.species_id, habReq.method, habReq.request_params,
                habObservations, habReq.lib)
     IN /\ habPc' = r.pc
        /\ habResponse' = r.response
        /\ habCalls' = r.calls
  /\ UNCHANGED <<habReq, habObservations, habitat_areas, trendVars, ovVars,
                 kdeVars, mcpVars, conVars>>

TriggerHabitat ==
  /\ habPc = "start"
  /\ habReq.handler = "save"
  /\ LET r == trigger_habitat_calculation_and_save(habReq.species_id,
                                                   habReq.method)
     IN /\ habPc' = r.pc
        /\ habResponse' = r.response
        /\ habCalls' = r.calls
  /\ UNCHANGED <<habReq, habObservations, habitat_areas, trendVars, ovVars,
                 kdeVars, mcpVars, conVars>>

RunHabitatCalculation ==
  /\ habPc = "accepted"
  /\ LET r == run_habitat_calculation(
                habReq.species_id, habReq.method, habReq.request_params,
                habObservations, habitat_areas, habReq.lib,
                habReq.db_fails)
     IN /\ habPc' = r.pc
        /\ habitat_areas' = r.areas
        /\ habCalls' = r.calls
  /\ UNCHANGED <<habReq, habObservations, habResponse, trendVars, ovVars,
                 kdeVars, mcpVars, conVars>>

HabitatOverlap ==
  /\ habPc = "start"
  /\ habReq.handler = "overlap"
  /\ LET r == calculate_habitat_overlap(
                habReq.species_id, habReq.species2_id, habReq.method,
                habitat_areas, habReq.text_ok, habReq.geos_fails)
     IN /\ habPc' = r.pc
        /\ habResponse' = r.response
        /\ habCalls' = r.calls
  /\ UNCHANGED <<habReq, habObservations, habitat_areas, trendVars, ovVars,
                 kdeVars, mcpVars, conVars>>

HabitatNext ==
  PreviewHabitat \/ TriggerHabitat \/ RunHabitatCalculation
    \/ HabitatOverlap

HabitatSpec == HabitatInit /\ [][HabitatNext]_vars

(***************************************************************************)
(* Two calls of calculate_kde, each in a thread of its own, stepping       *)
(* through :165-167 statement by statement.                                *)
(***************************************************************************)
\* The calls a thread makes: two with a polygon, one without a contour
\* line, one with 2 points.
ConCalls ==
  {[points |-> PointsArray({r \in Rows1 : r.id \in ids}),
    h_degrees |-> NoneVal, level_percent |-> FloatVal(90),
    grid_size |-> IntVal(100),
    lib |-> [fault |-> "none", segs |-> segs, z |-> <<4, 1, 3, 2, 7>>]] :
     ids \in {{1, 2, 3}},
     segs \in {<<ValidSegment(Rect(0, 0, 2, 2))>>,
               <<ValidSegment(Rect(1, 0, 3, 2))>>, <<>>}}
    \cup {[points |-> PointsArray({r \in Rows1 : r.id \in {1, 2}}),
           h_degrees |-> NoneVal, level_percent |-> FloatVal(90),
           grid_size |-> IntVal(100),
           lib |-> [fault |-> "none", segs |-> <<>>,
                    z |-> <<4, 1, 3, 2, 7>>]]}

\* What the call returns when it runs alone.
Alone(args) ==
  calculate_kde(args.points, args.h_degrees, args.level_percent,
                args.grid_size, args.lib)

\* Gcf.get_active(): the figure plt.gca() takes its axes from.
CurrentFigure == Gcf[Len(Gcf)]

\* Gcf.destroy(figure)
RECURSIVE Destroy(_, _)
Destroy(figs, f) ==
  IF figs = <<>>
  THEN <<>>
  ELSE IF Head(figs) = f
       THEN Destroy(Tail(figs), f)
       ELSE <<Head(figs)>> \o Destroy(Tail(figs), f)

ConInit ==
  /\ conArgs \in [Threads -> ConCalls]
  /\ conPc = [t \in Threads |-> "call"]
  /\ fig = [t \in Threads |-> NoFigure]
  /\ contour_axes = [t \in Threads |-> NoFigure]
  /\ conResult = [t \in Threads |-> KdeNone]
  /\ Gcf = <<>>
  /\ TrendIdle
  /\ OverlapIdle
  /\ KdeIdle
  /\ McpIdle
  /\ HabIdle

\* :103-158: the checks, the grid, the density and the threshold use the
\* arguments and locals of the call only.
KdeEnter(t) ==
  /\ conPc[t] = "call"
  /\ LET r == Alone(conArgs[t])
     IN IF Len(r.stages) >= 2
        THEN /\ conPc' = [conPc EXCEPT ![t] = "figure"]
             /\ UNCHANGED conResult
        ELSE /\ conPc' = [conPc EXCEPT ![t] = "done"]
             /\ conResult' = [conResult EXCEPT ![t] = r.val]
  /\ UNCHANGED <<conArgs, fig, contour_axes, Gcf, trendVars, ovVars,
                 kdeVars, mcpVars, habVars>>

\* :165 fig = plt.figure(): the new figure becomes the current one.
PltFigure(t) ==
  /\ conPc[t] = "figure"
  /\ Gcf' = Append(Gcf, t)
  /\ fig' = [fig EXCEPT ![t] = t]
  /\ conPc' = [conPc EXCEPT ![t] = "contour"]
  /\ UNCHANGED <<conArgs, contour_axes, conResult, trendVars, ovVars,
                 kdeVars, mcpVars, habVars>>

\* :166 plt.contour(...), first half: gca().contour(...) draws on the
\* axes of the current figure.
PltContour(t) ==
  /\ conPc[t] = "contour"
  /\ contour_axes' = [contour_axes EXCEPT ![t] = CurrentFigure]
  /\ conPc' = [conPc EXCEPT ![t] = "sci"]
  /\ UNCHANGED <<conArgs, fig, conResult, Gcf, trendVars, ovVars, kdeVars,
                 mcpVars, habVars>>

\* :166 plt.contour(...), second half: sci(contour_set) looks the current
\* axes up again.  When they are no longer the axes drawn on, the call
\* races with the other thread: it goes on, or it raises, and the handler
\* of :231 returns None with fig left open.
PltSci(t) ==
  /\ conPc[t] = "sci"
  /\ \/ /\ conPc' = [conPc EXCEPT ![t] = "close"]
        /\ UNCHANGED conResult
     \/ /\ CurrentFigure # contour_axes[t]
        /\ conPc' = [conPc EXCEPT ![t] = "done"]
        /\ conResult' = [conResult EXCEPT ![t] = KdeNone]
  /\ UNCHANGED <<conArgs, fig, contour_axes, Gcf, trendVars, ovVars,
                 kdeVars, mcpVars, habVars>>

\* :167 plt.close(fig)
PltClose(t) ==
  /\ conPc[t] = "close"
  /\ Gcf' = Destroy(Gcf, fig[t])
  /\ conPc' = [conPc EXCEPT ![t] = "segments"]
  /\ UNCHANGED <<conArgs, fig, contour_axes, conResult, trendVars, ovVars,
                 kdeVars, mcpVars, habVars>>

\* :169-229: the segments of contour_set, which the call computed from
\* its own z, become the result.
KdeSegments(t) ==
  /\ conPc[t] = "segments"
  /\ conResult' = [conResult EXCEPT ![t] = Alone(conArgs[t]).val]
  /\ conPc' = [conPc EXCEPT ![t] = "done"]
  /\ UNCHANGED <<conArgs, fig, contour_axes, Gcf, trendVars, ovVars,
                 kdeVars, mcpVars, habVars>>

ConNext ==
  \E t \in Threads :
     \/ KdeEnter(t)
     \/ PltFigure(t)
     \/ PltContour(t)
     \/ PltSci(t)
     \/ PltClose(t)
     \/ KdeSegments(t)

ConSpec == ConInit /\ [][ConNext]_vars

(***************************************************************************)
(* Properties of the trend endpoints (Spec).                               *)
(***************************************************************************)
Returned == pc \in {"overlap_returned", "evolution_returned"}
InOverlapTrend == pc \in {"overlap_loop", "overlap_returned"}
InEvolution == pc \in {"evolution_loop", "evolution_returned"}

BadRange(req) == req.time_step_days <= 0 \/ req.start_date > req.end_date
GoodRange(req) == req.time_step_days >= 1 /\ req.start_date <= req.end_date

\* floor((end_date - start_date) / time_step) + 1
ExpectedSteps(req) ==
  IF req.time_step_days >= 1
  THEN ((req.end_date - req.start_date) \div req.time_step_days) + 1
  ELSE 0

\* C1: a request with time_step_days <= 0 or start_date > end_date is
\* rejected with an error before the window loop begins: no window is
\* queried, no KDE is computed, no TrendPoint is emitted and no response
\* is returned as if the request had been served.
C1_BadRangeRejected ==
  BadRange(request) =>
    /\ ~Returned
    /\ steps = <<>>
    /\ overlap_data = <<>>
    /\ habitat_data = <<>>

\* C2: for time_step_days >= 1 and start_date <= end_date (both species
\* found) the loop terminates and the handler returns exactly
\* floor((end_date - start_date) / time_step) + 1 turns' worth of points.
\* Termination is stated by its variant: inside the loop the handler has
\* made at most that many turns, current_time has advanced by one step
\* per turn, the next turn or the return is always possible (the run is
\* neither aborted nor cut short), and the only exit is the return with
\* the full count: that many TrendPoints in overlap-trend mode, two per
\* turn in habitat-evolution mode.
C2_TrendTerminatesWithCount ==
  (GoodRange(request) /\ SpeciesFound(request)) =>
    /\ pc \in {"start", "overlap_loop", "evolution_loop",
               "overlap_returned", "evolution_returned"}
    /\ pc \in {"overlap_loop", "evolution_loop"} =>
         /\ Len(steps) <= ExpectedSteps(request)
         /\ current_time =
              request.start_date + Len(steps) * request.time_step_days
         /\ current_time <= request.end_date =>
              Len(steps) < IterCap(request)
    /\ Returned => Len(steps) = ExpectedSteps(request)
    /\ pc = "overlap_returned" =>
         Len(overlap_data) = ExpectedSteps(request)
    /\ pc = "evolution_returned" =>
         Len(habitat_data) = 2 * ExpectedSteps(request)

C2_Witness ==
  /\ pc = "overlap_returned"
  /\ GoodRange(request)
  /\ request.time_step_days = 2
  /\ Len(overlap_data) = 2
  /\ \E k \in 1..Len(steps) : steps[k].kde_called1

\* C3: the k-th TrendPoint of get_overlap_trend (k = 0, 1, ...) carries
\* time = start_date + k * time_step, no time exceeds end_date, the
\* returned times increase strictly, and the request 2024-01-01 ..
\* 2024-01-31 by 7 days returns exactly the days 0, 7, 14, 21, 28 after
\* 2024-01-01 (January 1, 8, 15, 22, 29).
C3_TimesAreStartPlusKSteps ==
  InOverlapTrend =>
    /\ \A k \in 1..Len(overlap_data) :
         /\ overlap_data[k].time =
              request.start_date + (k - 1) * request.time_step_days
         /\ overlap_data[k].time <= request.end_date
    /\ pc = "overlap_returned" =>
         \A j, k \in 1..Len(overlap_data) :
            j < k => overlap_data[j].time < overlap_data[k].time
    /\ (pc = "overlap_returned" /\ request = ExampleRequest) =>
         [k \in 1..Len(overlap_data) |-> overlap_data[k].time]
           = <<0, 7, 14, 21, 28>>

C3_Witness ==
  /\ pc = "overlap_returned"
  /\ request = ExampleRequest
  /\ Len(overlap_data) = 5
  /\ overlap_data[5].time = 28

\* The rows of one species inside the closed window of a turn.
InWindow(row, species_id, turn) ==
  /\ row.species_id = species_id
  /\ turn.time - request.observation_window_days <= row.timestamp
  /\ row.timestamp <= turn.time

\* C4: at every turn with current time t the points of a species are
\* exactly its observations with t - observation_window <= timestamp <= t,
\* both bounds included, and never a row of another species or of another
\* time.
C4_PointsAreTheWindow ==
  \A k \in 1..Len(steps) :
     /\ steps[k].points1 \subseteq observations
     /\ steps[k].points2 \subseteq observations
     /\ \A row \in observations :
          /\ row \in steps[k].points1
               <=> InWindow(row, request.species1_id, steps[k])
          /\ row \in steps[k].points2
               <=> InWindow(row, request.species2_id, steps[k])

C4_Witness ==
  \E k \in 1..Len(steps) :
     /\ steps[k].kde_called1
     /\ steps[k].window_start < steps[k].time
     /\ \E row \in steps[k].points1 : row.timestamp = steps[k].window_start
     /\ \E row \in steps[k].points1 : row.timestamp = steps[k].time
     /\ \E row \in observations :
          row.species_id = request.species1_id
            /\ row \notin steps[k].points1
     /\ steps[k].points2 # {}
     /\ request.species1_id # request.species2_id

\* A turn in which a species has fewer than 3 points or a KDE gave no
\* polygon.
Deficient(turn) ==
  \/ Cardinality(turn.points1) < 3
  \/ Cardinality(turn.points2) < 3
  \/ ~HasPolygon(turn.kde1)
  \/ ~HasPolygon(turn.kde2)

\* C5: in overlap-trend mode a deficient turn still emits exactly one
\* TrendPoint, for its own time, with overlap_area = 0 and
\* overlap_index = 0, without invoking calculate_overlap; the run is not
\* aborted and a returned run has a point for every turn up to end_date.
C5_DeficientTurnEmitsZeroPoint ==
  /\ pc # "http500"
  /\ InOverlapTrend =>
       /\ Len(overlap_data) = Len(steps)
       /\ \A k \in 1..Len(steps) :
            Deficient(steps[k]) =>
              /\ ~steps[k].overlap_called
              /\ overlap_data[k].time = steps[k].time
              /\ overlap_data[k].overlap_area = 0
              /\ overlap_data[k].overlap_index = Zero
       /\ (pc = "overlap_returned" /\ GoodRange(request)) =>
            Len(overlap_data) = ExpectedSteps(request)

C5_Witness ==
  /\ pc = "overlap_returned"
  /\ \E j, k \in 1..Len(steps) :
       /\ j < k
       /\ Cardinality(steps[j].points2) < 3
       /\ steps[j].kde_called1
       /\ ~HasPolygon(steps[j].kde1)
       /\ overlap_data[j].overlap_index = Zero
       /\ steps[k].overlap_called
       /\ overlap_data[k].overlap_area > 0

(***************************************************************************)
(* Properties of calculate_kde (KdeSpec).                                  *)
(***************************************************************************)
KdeArgsValid ==
  /\ kdeArgs.points.is_ndarray
  /\ Cardinality(kdeArgs.points.rows) >= 3
  /\ ValidBandwidth(kdeArgs.h_degrees)
  /\ ValidLevel(kdeArgs.level_percent)
  /\ ValidGridSize(kdeArgs.grid_size)

\* A failure inside the computation: singular covariance, a library call
\* that raises, no contour line, or no line that yields a polygon.
KdeComputationFails ==
  \/ Collinear(kdeArgs.points.rows)
  \/ kdeArgs.lib.fault # "none"
  \/ kdeArgs.lib.segs = <<>>
  \/ \A i \in 1..Len(kdeArgs.lib.segs) :
        \/ kdeArgs.lib.segs[i].nverts < 3
        \/ kdeArgs.lib.segs[i].raises
        \/ (kdeArgs.lib.segs[i].valid
              /\ kdeArgs.lib.segs[i].area <= AreaEps)
        \/ (~kdeArgs.lib.segs[i].valid
              /\ ~(kdeArgs.lib.segs[i].buf_valid
                     /\ kdeArgs.lib.segs[i].buf_area > AreaEps))

\* C6: with at least 3 points and valid parameters calculate_kde never
\* raises to its caller, and every failure inside the computation ends
\* with the "no result" value None.
C6_KdeNeverRaises ==
  (kdePc # "call" /\ KdeArgsValid) =>
    /\ kdePc = "returned"
    /\ KdeComputationFails => kdeResult.is_none

C6_Witness ==
  /\ kdePc = "returned"
  /\ KdeArgsValid
  /\ Collinear(kdeArgs.points.rows)
  /\ kdeArgs.lib.fault = "none"
  /\ Len(kdeArgs.lib.segs) = 2
  /\ kdeResult.is_none

(***************************************************************************)
(* Properties of calculate_overlap (OverlapSpec).                          *)
(***************************************************************************)
IsPolygonText(w) == w.tag = "POLYGON"
BothValid == /\ IsPolygonText(ovArgs.h1) /\ ovArgs.h1.valid
             /\ IsPolygonText(ovArgs.h2) /\ ovArgs.h2.valid

\* An input is missing or is no WKT, or GEOS fails on an invalid operand.
OverlapInputUnusable ==
  \/ ~IsPolygonText(ovArgs.h1)
  \/ ~IsPolygonText(ovArgs.h2)
  \/ (ovArgs.geos_fails /\ (~ovArgs.h1.valid \/ ~ovArgs.h2.valid))

\* C7: calculate_overlap never raises; on a missing input, an input that
\* is not WKT, or an invalid geometry on which intersection/union fails
\* it returns intersection_area = 0, union_area = 0, overlap_index = 0.
C7_OverlapNeverRaises ==
  ovPc # "call" =>
    /\ ovPc = "returned"
    /\ OverlapInputUnusable =>
         /\ ovResult.intersection_area = 0
         /\ ovResult.union_area = 0
         /\ ovResult.overlap_index = Zero

C7_Witness ==
  /\ ovPc = "returned"
  /\ IsPolygonText(ovArgs.h1) /\ ~ovArgs.h1.valid
  /\ IsPolygonText(ovArgs.h2) /\ ovArgs.h2.valid /\ ovArgs.h2.cells # {}
  /\ ovArgs.geos_fails
  /\ ovResult = ZeroMetrics

C9_SelfOverlapIsOne ==
  (ovPc = "returned" /\ BothValid /\ ovArgs.h1 = ovArgs.h2
     /\ Area(ovArgs.h1.cells) > 0) =>
    /\ ovResult.intersection_area = Area(ovArgs.h1.cells)
    /\ ovResult.union_area = Area(ovArgs.h1.cells)
    /\ ovResult.overlap_index = One

\* Two identical 4x4 squares of area 16.
C9_Witness ==
  /\ ovPc = "returned"
  /\ ovArgs.h1 = Wkt(Geom(Square0, TRUE))
  /\ ovArgs.h2 = ovArgs.h1
  /\ ovResult.intersection_area = 16
  /\ ovResult.union_area = 16
  /\ ovResult.overlap_index = One

\* C10: for disjoint valid polygons A and B calculate_overlap returns
\* intersection_area = 0, overlap_index = 0 and
\* union_area = area(A) + area(B).
C10_DisjointOverlapIsZero ==
  (ovPc = "returned" /\ BothValid
     /\ ovArgs.h1.cells \cap ovArgs.h2.cells = {}) =>
    /\ ovResult.intersection_area = 0
    /\ ovResult.overlap_index = Zero
    /\ ovResult.union_area
         = Area(ovArgs.h1.cells) + Area(ovArgs.h2.cells)

\* The 4x4 squares at x in [0, 4] and x in [10, 14]: union_area 32.
C10_Witness ==
  /\ ovPc = "returned"
  /\ ovArgs.h1 = Wkt(Geom(Square0, TRUE))
  /\ ovArgs.h2 = Wkt(Geom(Square10, TRUE))
  /\ ovResult.intersection_area = 0
  /\ ovResult.union_area = 32
  /\ ovResult.overlap_index = Zero

\* C11: calculate_overlap is symmetric in its two arguments: for all
\* inputs A and B, valid or not, the call on (A, B) and the call on
\* (B, A) return the same intersection_area, union_area and
\* overlap_index (GEOS fails on an operand pair whatever its order).
C11_OverlapSymmetric ==
  ovPc = "returned" =>
    LET swapped ==
          calculate_overlap(ovArgs.h2, ovArgs.h1, ovArgs.geos_fails)
    IN /\ ~swapped.exc
       /\ ovResult.intersection_area = swapped.val.intersection_area
       /\ ovResult.union_area = swapped.val.union_area
       /\ ovResult.overlap_index = swapped.val.overlap_index

\* An invalid 2x2 ring against the valid 4x4 square that contains it,
\* with GEOS computing a result: 4 over 16 in either order.
C11_Witness ==
  /\ ovPc = "returned"
  /\ ovArgs.h1 = Wkt(Geom(Rect(0, 0, 2, 2), FALSE))
  /\ ovArgs.h2 = Wkt(Geom(Square0, TRUE))
  /\ ~ovArgs.geos_fails
  /\ ovResult.intersection_area = 4
  /\ ovResult.union_area = 16
  /\ ovResult.overlap_index = <<1, 4>>

\* C12: in every result of calculate_overlap overlap_index is
\* intersection_area / union_area when union_area > 0 and 0 when
\* union_area is 0; it lies in [0, 1] and intersection_area <= union_area.
C12_IndexIsRatioInUnitRange ==
  ovPc = "returned" =>
    /\ ovResult.union_area > 0 =>
         ovResult.overlap_index
           = Ratio(ovResult.intersection_area, ovResult.union_area)
    /\ ovResult.union_area = 0 => ovResult.overlap_index = Zero
    /\ ovResult.overlap_index[2] > 0
    /\ 0 <= ovResult.overlap_index[1]
    /\ ovResult.overlap_index[1] <= ovResult.overlap_index[2]
    /\ 0 <= ovResult.intersection_area
    /\ ovResult.intersection_area <= ovResult.union_area

\* The 4x4 squares at x in [0, 4] and x in [2, 6]: 8 over 24 is 1/3.
C12_Witness ==
  /\ ovPc = "returned"
  /\ ovArgs.h1 = Wkt(Geom(Square0, TRUE))
  /\ ovArgs.h2 = Wkt(Geom(Rect(2, 0, 6, 4), TRUE))
  /\ ovResult.intersection_area = 8
  /\ ovResult.union_area = 24
  /\ ovResult.overlap_index = <<1, 3>>

(***************************************************************************)
(* Properties of calculate_mcp (McpSpec).                                  *)
(***************************************************************************)
NoPercentage == mcpArgs.parameters.percentage.kind = "none"

\* The percentage is a number in (0, 100].
GoodPercentage ==
  /\ mcpArgs.parameters.percentage.kind \in {"int", "float"}
  /\ 0 < mcpArgs.parameters.percentage.v
  /\ mcpArgs.parameters.percentage.v <= 100

\* A percentage is given and is no number in (0, 100].
BadPercentage == ~NoPercentage /\ ~GoodPercentage

\* The hull of :67 has been computed.
Hulled == \E i \in 1..Len(mcpLog) : mcpLog[i] = "convex_hull"

At(ring, i) == ring[((i - 1) % Len(ring)) + 1]

\* A ring of 3 or more distinct corners, each other corner strictly to
\* the left of every edge: a convex polygon, counter-clockwise.
ConvexRing(ring) ==
  /\ Len(ring) >= 3
  /\ \A i \in 1..Len(ring), j \in 1..Len(ring) :
        (j # i /\ j # (i % Len(ring)) + 1) =>
          Cross(At(ring, i), At(ring, i + 1), ring[j]) > 0

\* p is inside the ring or on it.
Covers(ring, p) ==
  \A i \in 1..Len(ring) : Cross(At(ring, i), At(ring, i + 1), p) >= 0

\* Twice the area inside the ring (the shoelace sum).
RECURSIVE Shoelace(_, _)
Shoelace(ring, i) ==
  IF i > Len(ring)
  THEN 0
  ELSE At(ring, i)[1] * At(ring, i + 1)[2]
         - At(ring, i + 1)[1] * At(ring, i)[2] + Shoelace(ring, i + 1)

RingArea2(ring) == Shoelace(ring, 1)

\* C13: for a list of 3 points or more that are not all on one line and
\* no percentage, calculate_mcp returns a convex polygon that contains
\* every input point and whose vertices are all input points; for the
\* square (0,0), (4,0), (4,4), (0,4) with the interior point (2,2) it is
\* that square, of area 16.
C13_HullIsConvexAndCovers ==
  (mcpPc = "returned" /\ NoPercentage /\ Len(mcpArgs.points) >= 3
     /\ ~AllCollinear(Locations(mcpArgs.points))) =>
    /\ mcpResult.tag = "POLYGON"
    /\ ConvexRing(mcpResult.ring)
    /\ \A p \in Locations(mcpArgs.points) : Covers(mcpResult.ring, p)
    /\ Locations(mcpResult.ring) \subseteq Locations(mcpArgs.points)
    /\ mcpArgs.points = Square5 =>
         /\ Locations(mcpResult.ring)
              = {<<0, 0>>, <<4, 0>>, <<4, 4>>, <<0, 4>>}
         /\ Len(mcpResult.ring) = 4
         /\ RingArea2(mcpResult.ring) = 2 * 16

C13_Witness ==
  /\ mcpPc = "returned"
  /\ NoPercentage
  /\ mcpArgs.points = Square5
  /\ mcpResult.tag = "POLYGON"
  /\ mcpResult.ring = <<<<0, 0>>, <<4, 0>>, <<4, 4>>, <<0, 4>>>>

\* C14: for every point list calculate_mcp with percentage = 100 returns
\* what calculate_mcp returns without a percentage: the same hull, or no
\* result in both cases.
C14_FullPercentageIsUntrimmed ==
  (mcpPc = "returned" /\ GoodPercentage
     /\ mcpArgs.parameters.percentage.v = 100) =>
    LET untrimmed ==
          calculate_mcp(mcpArgs.points, [percentage |-> NoneVal])
    IN /\ ~untrimmed.exc
       /\ mcpResult = untrimmed.val

\* The square with the outlier at percentage 100: the outlier is a
\* vertex of the hull.
C14_Witness ==
  /\ mcpPc = "returned"
  /\ mcpArgs.points = Outlier5
  /\ mcpArgs.parameters.percentage = IntVal(100)
  /\ mcpResult.tag = "POLYGON"
  /\ <<10, 10>> \in Locations(mcpResult.ring)

\* The indices of the points that at most floor((n - 1) * q / 100) points
\* are strictly closer to the centroid than: those whose distance is at
\* most the q-th percentile of the distances.
KeptIndices(points, q) ==
  LET d == distances(points)
      n == Len(points)
  IN {i \in 1..n :
        Cardinality({j \in 1..n : d[j] < d[i]}) * 100 <= (n - 1) * q}

KeptPoints(points, q) ==
  Compress(points, [i \in 1..Len(points) |-> i \in KeptIndices(points, q)])

\* C15: with a percentage in (0, 100] the hull is built from exactly the
\* input points whose distance to the centroid of all input points is at
\* most the percentage-th percentile of those distances, and the call
\* returns no result when fewer than 3 points are retained.
C15_HullOfPointsWithinPercentile ==
  (GoodPercentage /\ Len(mcpArgs.points) >= 3) =>
    LET kept == KeptPoints(mcpArgs.points, mcpArgs.parameters.percentage.v)
    IN /\ mcpPc = "hull" => (mcpPoints = kept /\ Len(kept) >= 3)
       /\ mcpPc = "returned" =>
            IF Len(kept) < 3
            THEN mcpResult = McpNone /\ ~Hulled
            ELSE Hulled /\ mcpPoints = kept /\ mcpResult = McpHull(kept)

\* The square with the outlier at percentage 50: the three points
\* nearest the centroid (2.8, 2.8) are kept.
C15_Witness ==
  /\ mcpPc = "returned"
  /\ mcpArgs.points = Outlier5
  /\ mcpArgs.parameters.percentage = IntVal(50)
  /\ mcpPoints = <<<<2, 0>>, <<0, 2>>, <<2, 2>>>>
  /\ mcpResult.tag = "POLYGON"
  /\ Len(mcpResult.ring) = 3

\* C16: calculate_mcp returns None, not an exception and not a polygon
\* of zero area, whenever the retained points are all on one line or
\* have fewer than 3 distinct locations.
C16_DegenerateHullIsNone ==
  /\ mcpPc \in {"idle", "call", "hull", "returned"}
  /\ mcpPc = "returned" =>
       /\ (Hulled /\ AllCollinear(Locations(mcpPoints))) =>
            mcpResult = McpNone
       /\ mcpResult.tag = "POLYGON" => RingArea2(mcpResult.ring) > 0

\* The 70th percentile keeps the three points on the line y = 0.
C16_Witness ==
  /\ mcpPc = "returned"
  /\ mcpArgs.points = LineAndOutlier
  /\ mcpArgs.parameters.percentage = IntVal(70)
  /\ mcpPoints = <<<<0, 0>>, <<2, 0>>, <<4, 0>>>>
  /\ Hulled
  /\ mcpResult = McpNone

\* C17: a call with 3 points or more and a percentage outside (0, 100],
\* or one that is no number, is rejected before any hull is computed:
\* the call never reaches the hull and returns no polygon.
C17_BadPercentageRejected ==
  (BadPercentage /\ Len(mcpArgs.points) >= 3) =>
    /\ mcpPc # "hull"
    /\ ~Hulled
    /\ mcpResult.tag # "POLYGON"

(***************************************************************************)
(* Properties of both estimators (EstimatorSpec).                          *)
(***************************************************************************)
\* C18: for every point set with fewer than 3 points, the empty one
\* included, calculate_mcp and calculate_kde both return None without
\* raising and without computing, whatever the other parameters are.
C18_FewerThanThreeIsNone ==
  /\ (mcpPc \notin {"idle", "call"} /\ Len(mcpArgs.points) < 3) =>
       /\ mcpPc = "returned"
       /\ mcpResult = McpNone
       /\ mcpLog = <<>>
  /\ (kdePc \notin {"idle", "call"}
        /\ Cardinality(kdeArgs.points.rows) < 3) =>
       /\ kdePc = "returned"
       /\ kdeResult = KdeNone
       /\ kdeStages = <<>>

\* Two points and a percentage of 150.
C18_Witness ==
  /\ mcpPc = "returned"
  /\ Len(mcpArgs.points) = 2
  /\ mcpArgs.parameters.percentage = IntVal(150)
  /\ mcpResult = McpNone

(***************************************************************************)
(* Properties of the parameter checks of calculate_kde (KdeSpec).          *)
(***************************************************************************)
\* The bandwidth is supplied and is not a number > 0, or level_percent is
\* not a number in (0, 100], or grid_size is not an integer > 1.
ParameterViolation ==
  \/ /\ kdeArgs.h_degrees.kind # "none"
     /\ ~(kdeArgs.h_degrees.kind \in {"int", "float"}
            /\ kdeArgs.h_degrees.v > 0)
  \/ ~(/\ kdeArgs.level_percent.kind \in {"int", "float"}
       /\ 0 < kdeArgs.level_percent.v
       /\ kdeArgs.level_percent.v <= 100)
  \/ ~(kdeArgs.grid_size.kind = "int" /\ kdeArgs.grid_size.v > 1)

\* What the caller sees of a call.
SeenOutcome(out) == [raised |-> out.exc, val |-> out.val]

\* The outcomes of calls with good parameters that end for want of data:
\* fewer than 3 points (:113-115), no contour line (:169-171).
SparsityOutcomes ==
  {SeenOutcome(calculate_kde(PointsArray(t), NoneVal, FloatVal(90),
                             IntVal(100), LibFor("box", t))) :
     t \in {t \in Tables1 : Cardinality(t) < 3}}
    \cup {SeenOutcome(calculate_kde(PointsArray(Rows1), NoneVal,
                                    FloatVal(90), IntVal(100),
                                    LibFor("flat", Rows1)))}

\* C19: the outcome of a call with 3 points or more and a parameter
\* violation differs, for the caller, from every outcome reported for
\* "no result due to data sparsity".
C19_ViolationDistinctFromSparsity ==
  (kdePc \in {"returned", "raised"} /\ ParameterViolation
     /\ Cardinality(kdeArgs.points.rows) >= 3) =>
    [raised |-> kdePc = "raised", val |-> kdeResult] \notin SparsityOutcomes

\* C20: all parameter checks precede the computation: when the bandwidth
\* is supplied and not > 0, or level_percent is not in (0, 100], or
\* grid_size is not an integer > 1, the call ends without building the
\* evaluation grid, evaluating the density or tracing a contour, and
\* returns no polygon.
C20_ChecksPrecedeComputation ==
  (kdePc # "call" /\ ParameterViolation) =>
    /\ kdePc = "returned"
    /\ kdeStages = <<>>
    /\ kdeResult.is_none
    /\ kdeResult.polygon_wkt = NoneWkt

\* Five points not on a line, a contour the libraries would trace, and
\* grid_size = 1.
C20_Witness ==
  /\ kdePc = "returned"
  /\ kdeArgs.points = PointsArray(Rows1)
  /\ kdeArgs.grid_size = IntVal(1)
  /\ kdeArgs.lib.fault = "none"
  /\ kdeArgs.lib.segs = <<ValidSegment(Rect(0, 0, 2, 2))>>
  /\ kdeStages = <<>>
  /\ kdeResult.is_none

(***************************************************************************)
(* Properties of the polygons the estimators return (EstimatorSpec).       *)
(***************************************************************************)
\* C21: every polygon calculate_mcp or calculate_kde returns is simple
\* (valid, not self-intersecting) and has strictly positive area; a
\* degenerate result is None, never a polygon that is empty or of area 0.
C21_ReturnedPolygonsAreProper ==
  /\ mcpPc = "returned" =>
       IF mcpResult.tag = "POLYGON"
       THEN ConvexRing(mcpResult.ring) /\ RingArea2(mcpResult.ring) > 0
       ELSE mcpResult = McpNone
  /\ kdePc \in {"returned", "raised"} =>
       IF kdeResult.is_none
       THEN kdeResult.polygon_wkt = NoneWkt
       ELSE /\ kdeResult.polygon_wkt.tag = "POLYGON"
            /\ kdeResult.polygon_wkt.valid
            /\ kdeResult.polygon_wkt.cells # {}
            /\ Area(kdeResult.polygon_wkt.cells) * CellArea > 0

\* A contour line that crosses itself and is repaired by the zero-width
\* buffer, next to a valid one: the union of the two is returned.
C21_Witness ==
  /\ kdePc = "returned"
  /\ Len(kdeArgs.lib.segs) = 2
  /\ kdeArgs.lib.segs[1] = FixableSegment(Rect(0, 0, 1, 1))
  /\ kdeArgs.lib.segs[2] = ValidSegment(Rect(1, 0, 3, 2))
  /\ ~kdeResult.is_none
  /\ kdeResult.polygon_wkt.valid
  /\ Area(kdeResult.polygon_wkt.cells) = 5

(***************************************************************************)
(* Properties of the points of get_habitat_evolution and of the            *)
(* independence of the turns (Spec).                                       *)
(***************************************************************************)
\* The two points the k-th turn of get_habitat_evolution appended.
EmittedBy(k) == <<habitat_data[2 * k - 1], habitat_data[2 * k]>>

\* C23: in habitat-evolution mode every turn appends exactly one point per
\* species, species1 first and species2 second, both with the time of the
\* turn; the centroid is present exactly when the species has 1 point or
\* more in the window, and a KDE polygon only when it has 3 or more.
C23_OnePointPerSpeciesPerTurn ==
  InEvolution =>
    /\ Len(habitat_data) = 2 * Len(steps)
    /\ \A k \in 1..Len(steps) :
         /\ EmittedBy(k)[1].species_id = request.species1_id
         /\ EmittedBy(k)[2].species_id = request.species2_id
         /\ EmittedBy(k)[1].time = steps[k].time
         /\ EmittedBy(k)[2].time = steps[k].time
         /\ EmittedBy(k)[1].centroid.present
              <=> Cardinality(steps[k].points1) >= 1
         /\ EmittedBy(k)[2].centroid.present
              <=> Cardinality(steps[k].points2) >= 1
         /\ EmittedBy(k)[1].kde_polygon.present
              => Cardinality(steps[k].points1) >= 3
         /\ EmittedBy(k)[2].kde_polygon.present
              => Cardinality(steps[k].points2) >= 3

C23_Witness ==
  /\ pc = "evolution_returned"
  /\ request.species1_id # request.species2_id
  /\ \E j, k \in 1..Len(steps) :
       /\ j < k
       /\ steps[j].points1 = {}
       /\ ~EmittedBy(j)[1].centroid.present
       /\ Cardinality(steps[k].points1) \in {1, 2}
       /\ EmittedBy(k)[1].centroid.present
       /\ ~EmittedBy(k)[1].kde_polygon.present
       /\ EmittedBy(k)[2].kde_polygon.present

WindowOf(db, t) ==
  {row \in db : /\ t - request.observation_window_days <= row.timestamp
                /\ row.timestamp <= t}

\* C25: every turn is independent of the others: computed afresh from any
\* table that agrees with the observations on the window of the turn, the
\* point (in habitat-evolution mode, the two points) of the turn is the
\* one that was emitted, whatever the turns before it computed.
C25_TurnDependsOnItsWindowOnly ==
  \A k \in 1..Len(steps) :
     \A db \in Tables :
        WindowOf(db, steps[k].time) = WindowOf(observations, steps[k].time)
          => /\ InOverlapTrend =>
                  overlap_data[k]
                    = OverlapTurn(db, request, kdeLib, steps[k].time).point
             /\ InEvolution =>
                  EmittedBy(k)
                    = HabitatTurn(db, request, kdeLib, steps[k].time).emitted

C25_Witness ==
  /\ pc = "overlap_returned"
  /\ \E j, k \in 1..Len(steps) :
       /\ j # k
       /\ steps[j].overlap_called
       /\ overlap_data[j].overlap_area > 0
       /\ overlap_data[k].overlap_area = 0
       /\ \E db \in Tables :
            /\ db # observations
            /\ WindowOf(db, steps[k].time)
                 = WindowOf(observations, steps[k].time)
            /\ WindowOf(db, steps[j].time)
                 # WindowOf(observations, steps[j].time)

(***************************************************************************)
(* Properties of the contour segments of calculate_kde (KdeSpec).          *)
(***************************************************************************)
\* The segment has 3 vertices or more and is a valid polygon of area above
\* 1e-9, or becomes one by buffer(0).
Contributes(seg) ==
  /\ seg.nverts >= 3
  /\ ~seg.raises
  /\ \/ seg.valid /\ seg.area > AreaEps
     \/ ~seg.valid /\ seg.buf_valid /\ seg.buf_area > AreaEps

\* The region such a segment encloses.
ContributionOf(seg) == IF seg.valid THEN seg.cells ELSE seg.buf_cells

\* The call reached the loop over the traced segments.
SegmentsTraced ==
  /\ kdePc = "returned"
  /\ KdeArgsValid
  /\ ~Collinear(kdeArgs.points.rows)
  /\ kdeArgs.lib.fault = "none"

\* C27: the returned geometry is the union of the traced segments that
\* have 3 vertices or more and are valid polygons of area above 1e-9,
\* directly or after buffer(0); every other segment is dropped whatever
\* its neighbours are, and when no segment is left the result is None.
C27_ExactlyTheProperSegmentsContribute ==
  SegmentsTraced =>
    LET segs == kdeArgs.lib.segs
        kept == {i \in 1..Len(segs) : Contributes(segs[i])}
        region == UNION {ContributionOf(segs[i]) : i \in kept}
    IN IF kept = {} \/ region = {}
       THEN kdeResult.is_none
       ELSE /\ ~kdeResult.is_none
            /\ kdeResult.polygon_wkt.tag = "POLYGON"
            /\ kdeResult.polygon_wkt.cells = region

C27_Witness ==
  /\ SegmentsTraced
  /\ kdeArgs.lib.segs
       = <<UnfixableSegment, FixableSegment(Rect(0, 0, 1, 1))>>
  /\ ~kdeResult.is_none
  /\ kdeResult.polygon_wkt.cells = Rect(0, 0, 1, 1)

(***************************************************************************)
(* Properties of the density threshold of calculate_kde (KdeSpec).         *)
(***************************************************************************)
\* A hundred times the value below + gamma * (above - below).
Hundredfold(p) ==
  100 * p.below + (p.gamma[1] * (100 \div p.gamma[2])) * (p.above - p.below)

\* The call computed its density and took the threshold of :158.
ThresholdTaken ==
  /\ kdePc = "returned"
  /\ KdeArgsValid
  /\ ~Collinear(kdeArgs.points.rows)
  /\ kdeArgs.lib.fault # "gaussian_kde"

\* C28: the contour is traced at the (100 - level_percent)-th percentile
\* of the grid densities: a level below the call's gives a threshold at
\* least as high, a level above it one at most as high, and for
\* level_percent = 100 the threshold is the least density of the grid.
C28_ThresholdIsComplementPercentile ==
  ThresholdTaken =>
    LET z == kdeArgs.lib.z
        level == kdeArgs.level_percent.v
    IN /\ kdeThreshold.present
       /\ kdeThreshold.value = percentile(z, 100 - level)
       /\ \A other \in 1..100 :
            /\ other <= level =>
                 Hundredfold(percentile(z, 100 - other))
                   >= Hundredfold(kdeThreshold.value)
            /\ other >= level =>
                 Hundredfold(percentile(z, 100 - other))
                   <= Hundredfold(kdeThreshold.value)
       /\ level = 100 =>
            Hundredfold(kdeThreshold.value)
              = 100 * Min({z[i] : i \in 1..Len(z)})

C28_Witness ==
  /\ ThresholdTaken
  /\ kdeArgs.lib.z = <<4, 1, 3, 2, 7>>
  /\ kdeArgs.level_percent = FloatVal(95)
  /\ kdeThreshold.present
  /\ Hundredfold(kdeThreshold.value) = 120
  /\ ~kdeResult.is_none

(***************************************************************************)
(* Properties of concurrent calls of calculate_kde (ConSpec).              *)
(***************************************************************************)
\* C26: two calls of calculate_kde in different threads share no mutable
\* state: the contour of a call is drawn on the figure the call opened,
\* never on the figure of the other, and under every interleaving a call
\* returns what it returns when it runs alone.
C26_ConcurrentCallsAreIsolated ==
  \A t \in Threads :
     /\ contour_axes[t] # NoFigure => contour_axes[t] = fig[t]
     /\ conPc[t] = "done" => conResult[t] = Alone(conArgs[t]).val

(***************************************************************************)
(* Properties of the habitat endpoints (HabitatSpec).                      *)
(***************************************************************************)
\* The points of the request's species that pass its filters.
RequestPoints ==
  ValidObservations(
    get_filtered_observations(habObservations, habReq.species_id,
                              habReq.request_params.filters))

\* C22: a habitat calculation (preview or saving task) with method 'kde',
\* an existing species and 3 valid points or more enters the KDE
\* estimator and completes: the preview returns its response, with the
\* polygon or with none, and the task ends without raising.
C22_KdeCalculationCompletes ==
  (/\ habReq.handler \in {"preview", "save"}
   /\ Lower(habReq.method) = "kde"
   /\ habReq.species_id \in SpeciesTable
   /\ Cardinality(RequestPoints) >= 3
   /\ habPc \notin {"start", "accepted"}) =>
    /\ habPc \in {"returned", "task_done"}
    /\ habCalls = <<"calculate_kde">>
    /\ habPc = "returned" => habResponse.status = 200

\* Both species have a saved area of the requested method.
BothAreasSaved ==
  /\ Lower(habReq.method) \in {"mcp", "kde"}
  /\ LatestArea(habitat_areas, habReq.species_id, Upper(habReq.method)).found
  /\ LatestArea(habitat_areas, habReq.species2_id, Upper(habReq.method)).found

\* C29: when both species have a saved habitat area of the requested
\* method, calculate_habitat_overlap completes and returns the
\* intersection area, union area and overlap index that calculate_overlap
\* computed for the two saved polygons.
C29_SavedOverlapIsReturned ==
  (habReq.handler = "overlap" /\ BothAreasSaved /\ habPc # "start") =>
    LET a1 == LatestArea(habitat_areas, habReq.species_id,
                         Upper(habReq.method)).row
        a2 == LatestArea(habitat_areas, habReq.species2_id,
                         Upper(habReq.method)).row
        metrics == calculate_overlap(a1.polygon.wkt, a2.polygon.wkt,
                                     habReq.geos_fails).val
    IN /\ habPc = "returned"
       /\ habCalls = <<"calculate_overlap">>
       /\ habResponse.status = 200
       /\ habResponse.intersection_area = metrics.intersection_area
       /\ habResponse.union_area = metrics.union_area
       /\ habResponse.overlap_index = metrics.overlap_index

====
